---- MODULE Spec2Model ----
(***************************************************************************)
(* The crime-statistics import pipeline of import_estat.py: main() reads   *)
(* and parses one file, _insert() resolves and deduplicates the parsed     *)
(* records and submits them to the prefecture_stats table in one upsert.   *)
(*                                                                         *)
(* Text is modelled as a sequence of characters.  A character is a TLA+    *)
(* string: an ASCII character stands for itself, any other character is    *)
(* written "uXXXX" with XXXX its Unicode code point.  The comment beside   *)
(* each literal gives the text of the source.  Python's None is the value  *)
(* None.  A latitude or longitude is its value times 10000.                *)
(***************************************************************************)
EXTENDS Integers, Sequences, FiniteSets, Bags, TLC

\* None is the empty tuple; a present optional integer n is Some(n) = <<n>>.
None == <<>>

Some(x) == <<x>>

\* ------------------------------------------------------------------------
\* Text helpers (the str operations the code uses)

\* Characters str.strip() removes.
WhiteSpace == {" ", "\t", "\n", "\r", "u3000"}

RECURSIVE lstrip(_)
lstrip(s) ==
  IF s # <<>> /\ Head(s) \in WhiteSpace THEN lstrip(Tail(s)) ELSE s

RECURSIVE rstrip(_)
rstrip(s) ==
  IF s # <<>> /\ s[Len(s)] \in WhiteSpace THEN rstrip(SubSeq(s, 1, Len(s) - 1)) ELSE s

\* str.strip()
strip(s) == rstrip(lstrip(s))

\* Python's  a in b  on two strings: a occurs in b as a contiguous run.
contains(b, a) ==
  \E i \in 1..(Len(b) - Len(a) + 1) : \A j \in 1..Len(a) : b[i + j - 1] = a[j]

\* sep.join(parts)
RECURSIVE join(_, _)
join(parts, sep) ==
  IF parts = <<>> THEN <<>>
  ELSE IF Len(parts) = 1 THEN parts[1]
  ELSE parts[1] \o sep \o join(Tail(parts), sep)

\* ------------------------------------------------------------------------
\* Reference tables

\* (code, name, lat, lng)
PREFECTURE_MASTER ==
  <<
     <<"01", <<"u5317", "u6D77", "u9053">>, 430642, 1413469>>,   \* 北海道 43.0642 141.3469
     <<"02", <<"u9752", "u68EE", "u770C">>, 408244, 1407400>>,   \* 青森県 40.8244 140.74
     <<"03", <<"u5CA9", "u624B", "u770C">>, 397036, 1411527>>,   \* 岩手県 39.7036 141.1527
     <<"04", <<"u5BAE", "u57CE", "u770C">>, 382688, 1408721>>,   \* 宮城県 38.2688 140.8721
     <<"05", <<"u79CB", "u7530", "u770C">>, 397186, 1401023>>,   \* 秋田県 39.7186 140.1023
     <<"06", <<"u5C71", "u5F62", "u770C">>, 382404, 1403636>>,   \* 山形県 38.2404 140.3636
     <<"07", <<"u798F", "u5CF6", "u770C">>, 377608, 1404747>>,   \* 福島県 37.7608 140.4747
     <<"08", <<"u8328", "u57CE", "u770C">>, 363418, 1404468>>,   \* 茨城県 36.3418 140.4468
     <<"09", <<"u6803", "u6728", "u770C">>, 365657, 1398836>>,   \* 栃木県 36.5657 139.8836
     <<"10", <<"u7FA4", "u99AC", "u770C">>, 363911, 1390608>>,   \* 群馬県 36.3911 139.0608
     <<"11", <<"u57FC", "u7389", "u770C">>, 358570, 1396489>>,   \* 埼玉県 35.857 139.6489
     <<"12", <<"u5343", "u8449", "u770C">>, 356047, 1401233>>,   \* 千葉県 35.6047 140.1233
     <<"13", <<"u6771", "u4EAC", "u90FD">>, 356894, 1396917>>,   \* 東京都 35.6894 139.6917
     <<"14", <<"u795E", "u5948", "u5DDD", "u770C">>, 354475, 1396425>>,   \* 神奈川県 35.4475 139.6425
     <<"15", <<"u65B0", "u6F5F", "u770C">>, 379023, 1390235>>,   \* 新潟県 37.9023 139.0235
     <<"16", <<"u5BCC", "u5C71", "u770C">>, 366953, 1372113>>,   \* 富山県 36.6953 137.2113
     <<"17", <<"u77F3", "u5DDD", "u770C">>, 365944, 1366256>>,   \* 石川県 36.5944 136.6256
     <<"18", <<"u798F", "u4E95", "u770C">>, 360652, 1362219>>,   \* 福井県 36.0652 136.2219
     <<"19", <<"u5C71", "u68A8", "u770C">>, 356642, 1385681>>,   \* 山梨県 35.6642 138.5681
     <<"20", <<"u9577", "u91CE", "u770C">>, 366513, 1381810>>,   \* 長野県 36.6513 138.181
     <<"21", <<"u5C90", "u961C", "u770C">>, 353912, 1367223>>,   \* 岐阜県 35.3912 136.7223
     <<"22", <<"u9759", "u5CA1", "u770C">>, 349769, 1383831>>,   \* 静岡県 34.9769 138.3831
     <<"23", <<"u611B", "u77E5", "u770C">>, 351802, 1369066>>,   \* 愛知県 35.1802 136.9066
     <<"24", <<"u4E09", "u91CD", "u770C">>, 347303, 1365086>>,   \* 三重県 34.7303 136.5086
     <<"25", <<"u6ECB", "u8CC0", "u770C">>, 350045, 1358686>>,   \* 滋賀県 35.0045 135.8686
     <<"26", <<"u4EAC", "u90FD", "u5E9C">>, 350211, 1357556>>,   \* 京都府 35.0211 135.7556
     <<"27", <<"u5927", "u962A", "u5E9C">>, 346863, 1355200>>,   \* 大阪府 34.6863 135.52
     <<"28", <<"u5175", "u5EAB", "u770C">>, 346913, 1351830>>,   \* 兵庫県 34.6913 135.183
     <<"29", <<"u5948", "u826F", "u770C">>, 346851, 1358328>>,   \* 奈良県 34.6851 135.8328
     <<"30", <<"u548C", "u6B4C", "u5C71", "u770C">>, 342261, 1351675>>,   \* 和歌山県 34.2261 135.1675
     <<"31", <<"u9CE5", "u53D6", "u770C">>, 355036, 1342383>>,   \* 鳥取県 35.5036 134.2383
     <<"32", <<"u5CF6", "u6839", "u770C">>, 354722, 1330505>>,   \* 島根県 35.4722 133.0505
     <<"33", <<"u5CA1", "u5C71", "u770C">>, 346617, 1339344>>,   \* 岡山県 34.6617 133.9344
     <<"34", <<"u5E83", "u5CF6", "u770C">>, 343963, 1324596>>,   \* 広島県 34.3963 132.4596
     <<"35", <<"u5C71", "u53E3", "u770C">>, 341861, 1314706>>,   \* 山口県 34.1861 131.4706
     <<"36", <<"u5FB3", "u5CF6", "u770C">>, 340658, 1345593>>,   \* 徳島県 34.0658 134.5593
     <<"37", <<"u9999", "u5DDD", "u770C">>, 343401, 1340434>>,   \* 香川県 34.3401 134.0434
     <<"38", <<"u611B", "u5A9B", "u770C">>, 338416, 1327657>>,   \* 愛媛県 33.8416 132.7657
     <<"39", <<"u9AD8", "u77E5", "u770C">>, 335597, 1335311>>,   \* 高知県 33.5597 133.5311
     <<"40", <<"u798F", "u5CA1", "u770C">>, 336064, 1304183>>,   \* 福岡県 33.6064 130.4183
     <<"41", <<"u4F50", "u8CC0", "u770C">>, 332494, 1302988>>,   \* 佐賀県 33.2494 130.2988
     <<"42", <<"u9577", "u5D0E", "u770C">>, 327503, 1298777>>,   \* 長崎県 32.7503 129.8777
     <<"43", <<"u718A", "u672C", "u770C">>, 327898, 1307417>>,   \* 熊本県 32.7898 130.7417
     <<"44", <<"u5927", "u5206", "u770C">>, 332382, 1316126>>,   \* 大分県 33.2382 131.6126
     <<"45", <<"u5BAE", "u5D0E", "u770C">>, 319110, 1314239>>,   \* 宮崎県 31.911 131.4239
     <<"46", <<"u9E7F", "u5150", "u5CF6", "u770C">>, 315602, 1305581>>,   \* 鹿児島県 31.5602 130.5581
     <<"47", <<"u6C96", "u7E04", "u770C">>, 262124, 1276809>>    \* 沖縄県 26.2124 127.6809
  >>

_PREF_ALIAS ==
  <<
     <<<<"u5317", "u6D77", "u9053">>, <<"u5317", "u6D77", "u9053">>>>,   \* 北海道 -> 北海道
     <<<<"u6771", "u4EAC">>, <<"u6771", "u4EAC", "u90FD">>>>,   \* 東京 -> 東京都
     <<<<"u5927", "u962A">>, <<"u5927", "u962A", "u5E9C">>>>,   \* 大阪 -> 大阪府
     <<<<"u4EAC", "u90FD">>, <<"u4EAC", "u90FD", "u5E9C">>>>,   \* 京都 -> 京都府
     <<<<"u795E", "u5948", "u5DDD">>, <<"u795E", "u5948", "u5DDD", "u770C">>>>,   \* 神奈川 -> 神奈川県
     <<<<"u548C", "u6B4C", "u5C71">>, <<"u548C", "u6B4C", "u5C71", "u770C">>>>,   \* 和歌山 -> 和歌山県
     <<<<"u9E7F", "u5150", "u5CF6">>, <<"u9E7F", "u5150", "u5CF6", "u770C">>>>    \* 鹿児島 -> 鹿児島県
  >>

CRIME_TYPE_MAP ==
  <<
     <<<<"u6BBA", "u4EBA">>, "satsujin_shougaichishi">>,   \* 殺人 -> 殺人・傷害致死
     <<<<"u5F37", "u76D7">>, "boukou_shougai">>,   \* 強盗 -> 暴行・傷害
     <<<<"u653E", "u706B">>, "sonota">>,   \* 放火 -> その他
     <<<<"u4E0D", "u540C", "u610F", "u6027", "u4EA4", "u7B49">>, "seihanzai">>,   \* 不同意性交等 -> 性犯罪
     <<<<"u5F37", "u59E6">>, "seihanzai">>,   \* 強姦 -> 性犯罪
     <<<<"u5F37", "u5236", "u6027", "u4EA4", "u7B49">>, "seihanzai">>,   \* 強制性交等 -> 性犯罪
     <<<<"u66B4", "u884C">>, "boukou_shougai">>,   \* 暴行 -> 暴行・傷害
     <<<<"u50B7", "u5BB3">>, "boukou_shougai">>,   \* 傷害 -> 暴行・傷害
     <<<<"u50B7", "u5BB3", "u81F4", "u6B7B">>, "satsujin_shougaichishi">>,   \* 傷害致死 -> 殺人・傷害致死
     <<<<"u8105", "u8FEB">>, "boukou_shougai">>,   \* 脅迫 -> 暴行・傷害
     <<<<"u6050", "u559D">>, "boukou_shougai">>,   \* 恐喝 -> 暴行・傷害
     <<<<"u51F6", "u5668", "u6E96", "u5099", "u96C6", "u5408">>, "boukou_shougai">>,   \* 凶器準備集合 -> 暴行・傷害
     <<<<"u7A83", "u76D7">>, "settou_manbiki">>,   \* 窃盗 -> 窃盗・万引き
     <<<<"u4FB5", "u5165", "u76D7">>, "settou_manbiki">>,   \* 侵入盗 -> 窃盗・万引き
     <<<<"u4E57", "u308A", "u7269", "u76D7">>, "settou_manbiki">>,   \* 乗り物盗 -> 窃盗・万引き
     <<<<"u975E", "u4FB5", "u5165", "u76D7">>, "settou_manbiki">>,   \* 非侵入盗 -> 窃盗・万引き
     <<<<"u3072", "u3063", "u305F", "u304F", "u308A">>, "settou_manbiki">>,   \* ひったくり -> 窃盗・万引き
     <<<<"u3059", "u308A">>, "settou_manbiki">>,   \* すり -> 窃盗・万引き
     <<<<"u81EA", "u52D5", "u8ECA", "u76D7">>, "settou_manbiki">>,   \* 自動車盗 -> 窃盗・万引き
     <<<<"u8A50", "u6B3A">>, "sagi">>,   \* 詐欺 -> 詐欺
     <<<<"u6A2A", "u9818">>, "sagi">>,   \* 横領 -> 詐欺
     <<<<"u507D", "u9020">>, "sagi">>,   \* 偽造 -> 詐欺
     <<<<"u80CC", "u4EFB">>, "sagi">>,   \* 背任 -> 詐欺
     <<<<"u6C5A", "u8077">>, "sagi">>,   \* 汚職 -> 詐欺
     <<<<"u308F", "u3044", "u305B", "u3064">>, "seihanzai">>,   \* わいせつ -> 性犯罪
     <<<<"u5F37", "u5236", "u308F", "u3044", "u305B", "u3064">>, "seihanzai">>,   \* 強制わいせつ -> 性犯罪
     <<<<"u4E0D", "u540C", "u610F", "u308F", "u3044", "u305B", "u3064">>, "seihanzai">>,   \* 不同意わいせつ -> 性犯罪
     <<<<"u8CED", "u535A">>, "sonota">>,   \* 賭博 -> その他
     <<<<"u4F4F", "u5C45", "u4FB5", "u5165">>, "sonota">>,   \* 住居侵入 -> その他
     <<<<"u5668", "u7269", "u640D", "u58CA">>, "sonota">>,   \* 器物損壊 -> その他
     <<<<"u516C", "u52D9", "u57F7", "u884C", "u59A8", "u5BB3">>, "sonota">>,   \* 公務執行妨害 -> その他
     <<<<"u7565", "u53D6", "u8A98", "u62D0">>, "sonota">>,   \* 略取誘拐 -> その他
     <<<<"u4EBA", "u8EAB", "u58F2", "u8CB7">>, "sonota">>,   \* 人身売買 -> その他
     <<<<"u5360", "u6709", "u96E2", "u8131", "u7269", "u6A2A", "u9818">>, "sonota">>    \* 占有離脱物横領 -> その他
  >>

_CATEGORY_FALLBACK ==
  <<
     <<<<"u51F6", "u60AA", "u72AF">>, "satsujin_shougaichishi">>,   \* 凶悪犯 -> 殺人・傷害致死
     <<<<"u7C97", "u66B4", "u72AF">>, "boukou_shougai">>,   \* 粗暴犯 -> 暴行・傷害
     <<<<"u7A83", "u76D7", "u72AF">>, "settou_manbiki">>,   \* 窃盗犯 -> 窃盗・万引き
     <<<<"u77E5", "u80FD", "u72AF">>, "sagi">>,   \* 知能犯 -> 詐欺
     <<<<"u98A8", "u4FD7", "u72AF">>, "seihanzai">>,   \* 風俗犯 -> 性犯罪
     <<<<"u91CD", "u8981", "u72AF", "u7F6A">>, "sonota">>    \* 重要犯罪 -> その他
  >>

\* ------------------------------------------------------------------------
\* Prefecture resolver

\* name -> (code, lat, lng), in the order of PREFECTURE_MASTER
_PREF_BY_NAME ==
  [i \in 1..Len(PREFECTURE_MASTER) |->
     <<PREFECTURE_MASTER[i][2],
       <<PREFECTURE_MASTER[i][1], PREFECTURE_MASTER[i][3], PREFECTURE_MASTER[i][4]>> >>]

\* A dict is a sequence of (key, value) pairs in insertion order.
dict_has(d, key) == \E i \in 1..Len(d) : d[i][1] = key

\* d.get(key): the value, or None
dict_get(d, key) ==
  IF dict_has(d, key) THEN d[CHOOSE i \in 1..Len(d) : d[i][1] = key][2] ELSE None

\* Variant:  if key not in d: d[key] = value  (the first value stays).
dict_put_keep_first(d, key, value) ==
  IF \E i \in 1..Len(d) : d[i][1] = key THEN d ELSE Append(d, <<key, value>>)

\* d[key] = value: replaces the value in place, or appends a new pair
dict_put(d, key, value) ==
  IF dict_has(d, key)
  THEN [i \in 1..Len(d) |-> IF d[i][1] = key THEN <<key, value>> ELSE d[i]]
  ELSE Append(d, <<key, value>>)

\* list(d.values())
dict_values(d) == [i \in 1..Len(d) |-> d[i][2]]

min_of(S) == CHOOSE i \in S : \A j \in S : i <= j

max_of(S) == CHOOSE i \in S : \A j \in S : j <= i

\* The entries of _PREF_BY_NAME the last-resort pass accepts.
fuzzy_matches(name) ==
  {i \in 1..Len(_PREF_BY_NAME) :
     contains(_PREF_BY_NAME[i][1], name) \/ contains(name, _PREF_BY_NAME[i][1])}

\* Variant: no alias table, a name that is no exact match goes to the
\* substring pass.
_lookup_pref_no_alias(raw) ==
  LET name == strip(raw)
  IN  IF dict_has(_PREF_BY_NAME, name) THEN dict_get(_PREF_BY_NAME, name)
      ELSE IF fuzzy_matches(name) # {}
           THEN _PREF_BY_NAME[min_of(fuzzy_matches(name))][2]
      ELSE None

\* Variant: the substring pass comes before the alias table.
_lookup_pref_fuzzy_before_alias(raw) ==
  LET name      == strip(raw)
      canonical == dict_get(_PREF_ALIAS, name)
  IN  IF dict_has(_PREF_BY_NAME, name) THEN dict_get(_PREF_BY_NAME, name)
      ELSE IF fuzzy_matches(name) # {}
           THEN _PREF_BY_NAME[min_of(fuzzy_matches(name))][2]
      ELSE IF canonical # None /\ dict_has(_PREF_BY_NAME, canonical)
           THEN dict_get(_PREF_BY_NAME, canonical)
      ELSE None

_lookup_pref(raw) ==
  LET name      == strip(raw)
      canonical == dict_get(_PREF_ALIAS, name)
  IN  IF dict_has(_PREF_BY_NAME, name) THEN dict_get(_PREF_BY_NAME, name)
      ELSE IF canonical # None /\ dict_has(_PREF_BY_NAME, canonical)
           THEN dict_get(_PREF_BY_NAME, canonical)
      ELSE IF fuzzy_matches(name) # {}
           THEN _PREF_BY_NAME[min_of(fuzzy_matches(name))][2]
      ELSE None

\* ------------------------------------------------------------------------
\* Crime-category mapper

\* The entries of _CATEGORY_FALLBACK whose keyword occurs in s.
fallback_matches(s) ==
  {i \in 1..Len(_CATEGORY_FALLBACK) : contains(s, _CATEGORY_FALLBACK[i][1])}

\* Variant: the last umbrella keyword the category contains decides.
_map_crime_type_last_keyword(category) ==
  LET s == strip(category)
  IN  IF dict_has(CRIME_TYPE_MAP, s) THEN dict_get(CRIME_TYPE_MAP, s)
      ELSE IF fallback_matches(s) # {}
           THEN _CATEGORY_FALLBACK[max_of(fallback_matches(s))][2]
      ELSE "sonota"

_map_crime_type(category) ==
  LET s == strip(category)
  IN  IF dict_has(CRIME_TYPE_MAP, s) THEN dict_get(CRIME_TYPE_MAP, s)
      ELSE IF fallback_matches(s) # {}
           THEN _CATEGORY_FALLBACK[min_of(fallback_matches(s))][2]
      ELSE "sonota"   \* その他

\* ------------------------------------------------------------------------
\* The prefecture_stats table (the storage sink)
\*
\* The table is a bag of rows.  A row is a record over the columns below; the
\* surrogate id and imported_at, which the import neither reads nor sets, are
\* left out.  A column that a statement does not supply, or supplies as None,
\* is NULL.

\* Columns declared nullable=False.
NotNullColumns == {"year", "prefecture_code", "prefecture_name"}

\* Columns whose value is an optional integer.
OptionColumns == {"year", "count_recognized", "count_cleared", "count_arrested"}

\* The columns of the unique constraint ON CONFLICT names.
row_key(r) == <<r.year, r.prefecture_code, r.crime_category>>

col_null(r, c) ==
  IF c \notin DOMAIN r THEN TRUE
  ELSE IF c \in OptionColumns THEN r[c] = None
  ELSE FALSE

\* ------------------------------------------------------------------------
\* _insert: records -> rows

\* next(n for c, n, *_ in PREFECTURE_MASTER if c == code)
master_name(code) ==
  PREFECTURE_MASTER[min_of({i \in 1..Len(PREFECTURE_MASTER) : PREFECTURE_MASTER[i][1] = code})][2]

\* Variant: the row keeps the prefecture name as the record spells it.
insert_row_raw_name(rec, pref_info) ==
  [year             |-> rec.year,
   prefecture_code  |-> pref_info[1],
   prefecture_name  |-> strip(rec.prefecture_name),
   crime_category   |-> rec.crime_category,
   crime_type       |-> _map_crime_type(rec.crime_category),
   count_recognized |-> rec.count_recognized,
   count_cleared    |-> rec.count_cleared,
   count_arrested   |-> rec.count_arrested,
   location         |-> <<pref_info[3], pref_info[2]>>,
   source           |-> "npa_estat"]

\* The row built from one record whose prefecture resolved to pref_info.
insert_row(rec, pref_info) ==
  [year             |-> rec.year,
   prefecture_code  |-> pref_info[1],
   prefecture_name  |-> master_name(pref_info[1]),
   crime_category   |-> rec.crime_category,
   crime_type       |-> _map_crime_type(rec.crime_category),
   count_recognized |-> rec.count_recognized,
   count_cleared    |-> rec.count_cleared,
   count_arrested   |-> rec.count_arrested,
   location         |-> <<pref_info[3], pref_info[2]>>,   \* POINT(lng lat)
   source           |-> "npa_estat"]

\* The first loop of _insert: the rows of the records whose prefecture
\* resolves, in order, and the count of the others.
RECURSIVE insert_rows(_)
insert_rows(records) ==
  IF records = <<>> THEN [rows |-> <<>>, skipped |-> 0]
  ELSE LET rec       == Head(records)
           pref_info == _lookup_pref(rec.prefecture_name)
           rest      == insert_rows(Tail(records))
       IN  IF pref_info = None
           THEN [rows |-> rest.rows, skipped |-> rest.skipped + 1]
           ELSE [rows |-> <<insert_row(rec, pref_info)>> \o rest.rows,
                 skipped |-> rest.skipped]

\* The dict seen after the second loop: seen[key] = row for every row in order.
RECURSIVE seen_after(_, _)
seen_after(seen, rows) ==
  IF rows = <<>> THEN seen
  ELSE seen_after(dict_put(seen, row_key(Head(rows)), Head(rows)), Tail(rows))

\* Variant: the second loop is missing, every row goes to the write-set.
dedupe_none(rows) == rows

dedupe(rows) == dict_values(seen_after(<<>>, rows))

\* Variant: the intra-file duplicates are not added to skipped.
insert_plan_unknown_only(records) ==
  [deduped |-> dedupe(insert_rows(records).rows),
   skipped |-> insert_rows(records).skipped]

\* _insert up to the dry-run test: the write-set and the skipped count.
insert_plan(records) ==
  LET first      == insert_rows(records)
      deduped    == dedupe(first.rows)
      intra_dups == Len(first.rows) - Len(deduped)
  IN  [deduped |-> deduped, skipped |-> first.skipped + intra_dups]

\* ------------------------------------------------------------------------
\* _insert: the upsert

\* pg_insert(PrefectureStats).values(deduped): the rows of the statement.  An
\* empty list is a single row that supplies no column; the column default
\* fills source.
stmt_values(deduped) ==
  IF deduped = <<>> THEN << [source |-> "npa_estat"] >> ELSE deduped

\* Variant: ON CONFLICT DO NOTHING (the existing row is kept).
conflict_do_nothing(old, excluded) == old

\* ON CONFLICT DO UPDATE SET: the existing row with the excluded row's
\* crime_type, counts, location and source.
conflict_update(old, excluded) ==
  [old EXCEPT !.crime_type       = excluded.crime_type,
              !.count_recognized = excluded.count_recognized,
              !.count_cleared    = excluded.count_cleared,
              !.count_arrested   = excluded.count_arrested,
              !.location         = excluded.location,
              !.source           = excluded.source]

\* Variant: the table has no unique constraint, nothing conflicts.
conflicting_never(table, r) == {}

\* The rows of the table that conflict with r on the unique constraint.
conflicting(table, r) == {t \in BagToSet(table) : row_key(t) = row_key(r)}

RECURSIVE bag_replace(_, _, _)
bag_replace(table, olds, excluded) ==
  IF olds = {} THEN table
  ELSE LET t == CHOOSE x \in olds : TRUE
           n == CopiesIn(t, table)
           moved == [x \in {conflict_update(t, excluded)} |-> n]
       IN  bag_replace((table (-) [x \in {t} |-> n]) (+) moved, olds \ {t}, excluded)

\* Variant: a plain INSERT, without the ON CONFLICT clause.
upsert_row_insert_only(table, r) == table (+) SetToBag({r})

\* One row of the statement: inserted, or the conflicting row updated.
upsert_row(table, r) ==
  IF conflicting(table, r) = {} THEN table (+) SetToBag({r})
  ELSE bag_replace(table, conflicting(table, r), r)

\* The statement row by row.  A NULL in a NOT NULL column fails it, and so
\* does a second row on a key the statement has already written.
RECURSIVE pg_apply(_, _, _)
pg_apply(table, values, written) ==
  IF values = <<>> THEN [ok |-> TRUE, table |-> table]
  ELSE LET r == Head(values) IN
       IF \E c \in NotNullColumns : col_null(r, c)
       THEN [ok |-> FALSE, table |-> table]
       ELSE IF row_key(r) \in written
       THEN [ok |-> FALSE, table |-> table]
       ELSE pg_apply(upsert_row(table, r), Tail(values), written \cup {row_key(r)})

\* db.execute(stmt): the statement takes effect as a whole or not at all.
pg_execute(table, values) ==
  LET res == pg_apply(table, values, {})
  IN  IF res.ok THEN res ELSE [ok |-> FALSE, table |-> table]

\* Variant: one execute and one commit per record, stopping at the
\* first that raises.
RECURSIVE db_write_per_record(_, _)
db_write_per_record(table, deduped) ==
  IF deduped = <<>> THEN [ok |-> TRUE, table |-> table, statements |-> 0]
  ELSE LET one == pg_execute(table, <<Head(deduped)>>)
       IN  IF ~one.ok THEN [ok |-> FALSE, table |-> table, statements |-> 1]
           ELSE LET rest == db_write_per_record(one.table, Tail(deduped))
                IN  [ok |-> rest.ok, table |-> rest.table,
                     statements |-> rest.statements + 1]

\* Variant: the statement replaces the content of the table.
db_write_replacing(table, deduped) ==
  LET res == pg_execute(EmptyBag, stmt_values(deduped))
  IN  [ok |-> res.ok, table |-> IF res.ok THEN res.table ELSE table, statements |-> 1]

\* The try block of _insert: one statement and one commit.  When execute
\* raises, close() ends the session without a commit.
db_write(table, deduped) ==
  LET res == pg_execute(table, stmt_values(deduped))
  IN  [ok |-> res.ok, table |-> res.table, statements |-> 1]

\* ------------------------------------------------------------------------
\* Files and codecs
\*
\* A path is a file: its name and its content, a sequence of bytes.  The
\* codec tables hold, for each codec, the single bytes, byte pairs and byte
\* sequences that occur when the files below are decoded, with the character
\* each stands for; a byte or pair a table lacks is one the codec rejects.

\* utf-8: the byte sequences of the files' characters
UTF_8 ==
  (<<10>> :> "\n") @@   \* 0A -> LF
  (<<32>> :> " ") @@   \* 20 -> space
  (<<44>> :> ",") @@   \* 2C -> ,
  (<<49>> :> "1") @@   \* 31 -> 1
  (<<50>> :> "2") @@   \* 32 -> 2
  (<<51>> :> "3") @@   \* 33 -> 3
  (<<52>> :> "4") @@   \* 34 -> 4
  (<<53>> :> "5") @@   \* 35 -> 5
  (<<54>> :> "6") @@   \* 36 -> 6
  (<<55>> :> "7") @@   \* 37 -> 7
  (<<70>> :> "F") @@   \* 46 -> F
  (<<80>> :> "P") @@   \* 50 -> P
  (<<81>> :> "Q") @@   \* 51 -> Q
  (<<82>> :> "R") @@   \* 52 -> R
  (<<85>> :> "U") @@   \* 55 -> U
  (<<92>> :> "\\") @@   \* 5C -> \
  (<<97>> :> "a") @@   \* 61 -> a
  (<<100>> :> "d") @@   \* 64 -> d
  (<<105>> :> "i") @@   \* 69 -> i
  (<<106>> :> "j") @@   \* 6A -> j
  (<<109>> :> "m") @@   \* 6D -> m
  (<<115>> :> "s") @@   \* 73 -> s
  (<<116>> :> "t") @@   \* 74 -> t
  (<<118>> :> "v") @@   \* 76 -> v
  (<<123>> :> "{") @@   \* 7B -> {
  (<<198, 141>> :> "u018D") @@   \* C68D -> U+018D
  (<<223, 142>> :> "u07CE") @@   \* DF8E -> U+07CE
  (<<223, 145>> :> "u07D1") @@   \* DF91 -> U+07D1
  (<<228, 187, 152>> :> "u4ED8") @@   \* E4BB98 -> 付
  (<<228, 187, 182>> :> "u4EF6") @@   \* E4BBB6 -> 件
  (<<229, 186, 156>> :> "u5E9C") @@   \* E5BA9C -> 府
  (<<230, 149, 176>> :> "u6570") @@   \* E695B0 -> 数
  (<<230, 151, 165>> :> "u65E5") @@   \* E697A5 -> 日
  (<<231, 156, 140>> :> "u770C") @@   \* E79C8C -> 県
  (<<231, 159, 165>> :> "u77E5") @@   \* E79FA5 -> 知
  (<<231, 168, 174>> :> "u7A2E") @@   \* E7A8AE -> 種
  (<<231, 172, 172>> :> "u7B2C") @@   \* E7ACAC -> 第
  (<<231, 189, 170>> :> "u7F6A") @@   \* E7BDAA -> 罪
  (<<232, 161, 168>> :> "u8868") @@   \* E8A1A8 -> 表
  (<<232, 170, 141>> :> "u8A8D") @@   \* E8AA8D -> 認
  (<<233, 129, 147>> :> "u9053") @@   \* E98193 -> 道
  (<<233, 131, 189>> :> "u90FD") @@   \* E983BD -> 都
  (<<239, 187, 191>> :> "uFEFF") @@   \* EFBBBF -> U+FEFF
  (<<239, 188, 145>> :> "uFF11")   \* EFBC91 -> １

\* shift-jis: single bytes and byte pairs
SHIFT_JIS ==
  (<<10>> :> "\n") @@   \* 0A -> LF
  (<<32>> :> " ") @@   \* 20 -> space
  (<<44>> :> ",") @@   \* 2C -> ,
  (<<49>> :> "1") @@   \* 31 -> 1
  (<<50>> :> "2") @@   \* 32 -> 2
  (<<51>> :> "3") @@   \* 33 -> 3
  (<<52>> :> "4") @@   \* 34 -> 4
  (<<53>> :> "5") @@   \* 35 -> 5
  (<<54>> :> "6") @@   \* 36 -> 6
  (<<55>> :> "7") @@   \* 37 -> 7
  (<<97>> :> "a") @@   \* 61 -> a
  (<<161>> :> "uFF61") @@   \* A1 -> ｡
  (<<165>> :> "uFF65") @@   \* A5 -> ･
  (<<168>> :> "uFF68") @@   \* A8 -> ｨ
  (<<170>> :> "uFF6A") @@   \* AA -> ｪ
  (<<172>> :> "uFF6C") @@   \* AC -> ｬ
  (<<174>> :> "uFF6E") @@   \* AE -> ｮ
  (<<176>> :> "uFF70") @@   \* B0 -> ｰ
  (<<182>> :> "uFF76") @@   \* B6 -> ｶ
  (<<186>> :> "uFF7A") @@   \* BA -> ｺ
  (<<187>> :> "uFF7B") @@   \* BB -> ｻ
  (<<188>> :> "uFF7C") @@   \* BC -> ｼ
  (<<189>> :> "uFF7D") @@   \* BD -> ｽ
  (<<191>> :> "uFF7F") @@   \* BF -> ｿ
  (<<129, 105>> :> "uFF08") @@   \* 8169 -> （
  (<<129, 106>> :> "uFF09") @@   \* 816A -> ）
  (<<130, 80>> :> "uFF11") @@   \* 8250 -> １
  (<<130, 82>> :> "uFF13") @@   \* 8252 -> ３
  (<<130, 85>> :> "uFF16") @@   \* 8255 -> ６
  (<<138, 81>> :> "u5BB3") @@   \* 8A51 -> 害
  (<<139, 158>> :> "u4EAC") @@   \* 8B9E -> 京
  (<<140, 143>> :> "u4EF6") @@   \* 8C8F -> 件
  (<<140, 167>> :> "u770C") @@   \* 8CA7 -> 県
  (<<141, 223>> :> "u7F6A") @@   \* 8DDF -> 罪
  (<<141, 227>> :> "u962A") @@   \* 8DE3 -> 阪
  (<<141, 231>> :> "u54B2") @@   \* 8DE7 -> 咲
  (<<142, 237>> :> "u7A2E") @@   \* 8EED -> 種
  (<<143, 100>> :> "u91CD") @@   \* 8F64 -> 重
  (<<143, 157>> :> "u50B7") @@   \* 8F9D -> 傷
  (<<144, 148>> :> "u6570") @@   \* 9094 -> 数
  (<<145, 141>> :> "u7DCF") @@   \* 918D -> 総
  (<<145, 229>> :> "u5927") @@   \* 91E5 -> 大
  (<<145, 230>> :> "u7B2C") @@   \* 91E6 -> 第
  (<<145, 232>> :> "u984C") @@   \* 91E8 -> 題
  (<<146, 109>> :> "u77E5") @@   \* 926D -> 知
  (<<147, 115>> :> "u90FD") @@   \* 9373 -> 都
  (<<147, 140>> :> "u6771") @@   \* 938C -> 東
  (<<147, 185>> :> "u9053") @@   \* 93B9 -> 道
  (<<147, 229>> :> "u7058") @@   \* 93E5 -> 灘
  (<<147, 250>> :> "u65E5") @@   \* 93FA -> 日
  (<<148, 70>> :> "u8A8D") @@   \* 9446 -> 認
  (<<148, 198>> :> "u72AF") @@   \* 94C6 -> 犯
  (<<149, 92>> :> "u8868") @@   \* 955C -> 表
  (<<149, 116>> :> "u4ED8") @@   \* 9574 -> 付
  (<<149, 123>> :> "u5E9C") @@   \* 957B -> 府
  (<<151, 118>> :> "u8981") @@   \* 9776 -> 要
  (<<156, 140>> :> "u6041") @@   \* 9C8C -> 恁
  (<<156, 231>> :> "u61C3") @@   \* 9CE7 -> 懃
  (<<159, 165>> :> "u884D") @@   \* 9FA5 -> 衍
  (<<228, 187>> :> "u8389") @@   \* E4BB -> 莉
  (<<230, 149>> :> "u8B28") @@   \* E695 -> 謨
  (<<230, 151>> :> "u8B4C") @@   \* E697 -> 譌
  (<<231, 168>> :> "u905E") @@   \* E7A8 -> 遞
  (<<231, 172>> :> "u96A8") @@   \* E7AC -> 隨
  (<<231, 189>> :> "u9102") @@   \* E7BD -> 鄂
  (<<232, 161>> :> "u9666") @@   \* E8A1 -> 陦
  (<<232, 170>> :> "u96B1") @@   \* E8AA -> 隱
  (<<233, 129>> :> "u9A55") @@   \* E981 -> 驕
  (<<233, 131>> :> "u9A5B")   \* E983 -> 驛

\* cp932: single bytes and byte pairs
CP932 ==
  (<<10>> :> "\n") @@   \* 0A -> LF
  (<<32>> :> " ") @@   \* 20 -> space
  (<<44>> :> ",") @@   \* 2C -> ,
  (<<49>> :> "1") @@   \* 31 -> 1
  (<<50>> :> "2") @@   \* 32 -> 2
  (<<51>> :> "3") @@   \* 33 -> 3
  (<<52>> :> "4") @@   \* 34 -> 4
  (<<53>> :> "5") @@   \* 35 -> 5
  (<<54>> :> "6") @@   \* 36 -> 6
  (<<55>> :> "7") @@   \* 37 -> 7
  (<<97>> :> "a") @@   \* 61 -> a
  (<<161>> :> "uFF61") @@   \* A1 -> ｡
  (<<165>> :> "uFF65") @@   \* A5 -> ･
  (<<168>> :> "uFF68") @@   \* A8 -> ｨ
  (<<170>> :> "uFF6A") @@   \* AA -> ｪ
  (<<172>> :> "uFF6C") @@   \* AC -> ｬ
  (<<174>> :> "uFF6E") @@   \* AE -> ｮ
  (<<176>> :> "uFF70") @@   \* B0 -> ｰ
  (<<182>> :> "uFF76") @@   \* B6 -> ｶ
  (<<186>> :> "uFF7A") @@   \* BA -> ｺ
  (<<187>> :> "uFF7B") @@   \* BB -> ｻ
  (<<188>> :> "uFF7C") @@   \* BC -> ｼ
  (<<189>> :> "uFF7D") @@   \* BD -> ｽ
  (<<191>> :> "uFF7F") @@   \* BF -> ｿ
  (<<129, 105>> :> "uFF08") @@   \* 8169 -> （
  (<<129, 106>> :> "uFF09") @@   \* 816A -> ）
  (<<130, 80>> :> "uFF11") @@   \* 8250 -> １
  (<<130, 82>> :> "uFF13") @@   \* 8252 -> ３
  (<<130, 85>> :> "uFF16") @@   \* 8255 -> ６
  (<<138, 81>> :> "u5BB3") @@   \* 8A51 -> 害
  (<<139, 158>> :> "u4EAC") @@   \* 8B9E -> 京
  (<<140, 143>> :> "u4EF6") @@   \* 8C8F -> 件
  (<<140, 167>> :> "u770C") @@   \* 8CA7 -> 県
  (<<141, 223>> :> "u7F6A") @@   \* 8DDF -> 罪
  (<<141, 227>> :> "u962A") @@   \* 8DE3 -> 阪
  (<<141, 231>> :> "u54B2") @@   \* 8DE7 -> 咲
  (<<142, 237>> :> "u7A2E") @@   \* 8EED -> 種
  (<<143, 100>> :> "u91CD") @@   \* 8F64 -> 重
  (<<143, 157>> :> "u50B7") @@   \* 8F9D -> 傷
  (<<144, 148>> :> "u6570") @@   \* 9094 -> 数
  (<<145, 141>> :> "u7DCF") @@   \* 918D -> 総
  (<<145, 229>> :> "u5927") @@   \* 91E5 -> 大
  (<<145, 230>> :> "u7B2C") @@   \* 91E6 -> 第
  (<<145, 232>> :> "u984C") @@   \* 91E8 -> 題
  (<<146, 109>> :> "u77E5") @@   \* 926D -> 知
  (<<147, 115>> :> "u90FD") @@   \* 9373 -> 都
  (<<147, 140>> :> "u6771") @@   \* 938C -> 東
  (<<147, 185>> :> "u9053") @@   \* 93B9 -> 道
  (<<147, 229>> :> "u7058") @@   \* 93E5 -> 灘
  (<<147, 250>> :> "u65E5") @@   \* 93FA -> 日
  (<<148, 70>> :> "u8A8D") @@   \* 9446 -> 認
  (<<148, 198>> :> "u72AF") @@   \* 94C6 -> 犯
  (<<149, 92>> :> "u8868") @@   \* 955C -> 表
  (<<149, 116>> :> "u4ED8") @@   \* 9574 -> 付
  (<<149, 123>> :> "u5E9C") @@   \* 957B -> 府
  (<<151, 118>> :> "u8981") @@   \* 9776 -> 要
  (<<156, 140>> :> "u6041") @@   \* 9C8C -> 恁
  (<<156, 231>> :> "u61C3") @@   \* 9CE7 -> 懃
  (<<159, 165>> :> "u884D") @@   \* 9FA5 -> 衍
  (<<228, 187>> :> "u8389") @@   \* E4BB -> 莉
  (<<230, 149>> :> "u8B28") @@   \* E695 -> 謨
  (<<230, 151>> :> "u8B4C") @@   \* E697 -> 譌
  (<<231, 168>> :> "u905E") @@   \* E7A8 -> 遞
  (<<231, 172>> :> "u96A8") @@   \* E7AC -> 隨
  (<<231, 189>> :> "u9102") @@   \* E7BD -> 鄂
  (<<232, 161>> :> "u9666") @@   \* E8A1 -> 陦
  (<<232, 170>> :> "u96B1") @@   \* E8AA -> 隱
  (<<233, 129>> :> "u9A55") @@   \* E981 -> 驕
  (<<233, 131>> :> "u9A5B")   \* E983 -> 驛

\* U+FFFD, what errors="replace" puts where a codec rejects a byte
REPLACEMENT == "uFFFD"

\* The byte order mark the utf-8-sig codec drops.
BOM == <<239, 187, 191>>

\* utf-8: the number of continuation bytes a lead byte asks for, -1 for a
\* byte that cannot lead.
utf8_need(b0) ==
  IF b0 < 128 THEN 0
  ELSE IF b0 >= 194 /\ b0 <= 223 THEN 1
  ELSE IF b0 >= 224 /\ b0 <= 239 THEN 2
  ELSE IF b0 >= 240 /\ b0 <= 244 THEN 3
  ELSE -1

\* utf-8: byte bk may be the k-th continuation byte after lead byte b0.
utf8_cont_ok(b0, k, bk) ==
  LET lo == IF k = 1 /\ b0 = 224 THEN 160 ELSE IF k = 1 /\ b0 = 240 THEN 144 ELSE 128
      hi == IF k = 1 /\ b0 = 237 THEN 159 ELSE IF k = 1 /\ b0 = 244 THEN 143 ELSE 191
  IN  bk >= lo /\ bk <= hi

\* utf-8: how many of the continuation bytes the lead byte at i asks for
\* are there, counting from `good` of them already seen.
RECURSIVE utf8_good(_, _, _)
utf8_good(b, i, good) ==
  IF good < utf8_need(b[i]) /\ i + 1 + good <= Len(b)
     /\ utf8_cont_ok(b[i], good + 1, b[i + 1 + good])
  THEN utf8_good(b, i, good + 1)
  ELSE good

\* bytes.decode("utf-8", errors) from byte i on, text being what is decoded
\* so far.
RECURSIVE utf8_from(_, _, _, _)
utf8_from(b, i, errors, text) ==
  IF i > Len(b) THEN [ok |-> TRUE, text |-> text]
  ELSE LET need == utf8_need(b[i])
           good == utf8_good(b, i, 0)
       IN  IF need >= 0 /\ good = need
           THEN utf8_from(b, i + 1 + need, errors,
                          Append(text, UTF_8[SubSeq(b, i, i + need)]))
           ELSE IF errors = "strict" THEN [ok |-> FALSE, text |-> <<>>]
           ELSE utf8_from(b, i + 1 + good, errors, Append(text, REPLACEMENT))

\* bytes.decode of a double-byte codec (shift-jis, cp932) from byte i on.
RECURSIVE dbcs_from(_, _, _, _, _)
dbcs_from(table, b, i, errors, text) ==
  IF i > Len(b) THEN [ok |-> TRUE, text |-> text]
  ELSE IF <<b[i]>> \in DOMAIN table
  THEN dbcs_from(table, b, i + 1, errors, Append(text, table[<<b[i]>>]))
  ELSE IF i + 1 <= Len(b) /\ <<b[i], b[i + 1]>> \in DOMAIN table
  THEN dbcs_from(table, b, i + 2, errors, Append(text, table[<<b[i], b[i + 1]>>]))
  ELSE IF errors = "strict" THEN [ok |-> FALSE, text |-> <<>>]
  ELSE dbcs_from(table, b, i + 1, errors, Append(text, REPLACEMENT))

\* s.split(sep): the pieces of a sequence between its separators, one more
\* than there are separators.
split(s, sep) ==
  LET seps   == {i \in 1..Len(s) : s[i] = sep}
      n      == Cardinality(seps)
      cut(k) == IF k = 0 THEN 0
                ELSE IF k = n + 1 THEN Len(s) + 1
                ELSE CHOOSE p \in seps : Cardinality({q \in seps : q < p}) = k - 1
  IN  [k \in 1..(n + 1) |-> SubSeq(s, cut(k - 1) + 1, cut(k) - 1)]

\* bytes.decode(enc, errors) of the bytes of one cell, without a byte order
\* mark.
decode_cell(c, enc, errors) ==
  IF enc \in {"utf-8", "utf-8-sig"} THEN utf8_from(c, 1, errors, <<>>)
  ELSE IF enc = "shift-jis" THEN dbcs_from(SHIFT_JIS, c, 1, errors, <<>>)
  ELSE dbcs_from(CP932, c, 1, errors, <<>>)

\* bytes.decode(enc, errors): ok is FALSE where Python raises
\* UnicodeDecodeError.  The bytes are decoded cell by cell, the lines between
\* the line feeds and the cells between the commas: line feed and comma are
\* one byte each in the four codecs, no byte of a longer character equals
\* either, and a codec that rejects a byte goes on with the next one, so the
\* cells decode as the whole does.
decode(b, enc, errors) ==
  LET body  == IF enc = "utf-8-sig" /\ Len(b) >= 3 /\ SubSeq(b, 1, 3) = BOM
               THEN SubSeq(b, 4, Len(b)) ELSE b
      lines == split(body, 10)
      cells == [i \in 1..Len(lines) |->
                  [j \in 1..Len(split(lines[i], 44)) |->
                     decode_cell(split(lines[i], 44)[j], enc, errors)]]
  IN  IF \A i \in 1..Len(cells) : \A j \in 1..Len(cells[i]) : cells[i][j].ok
      THEN [ok |-> TRUE,
            text |-> join([i \in 1..Len(cells) |->
                             join([j \in 1..Len(cells[i]) |-> cells[i][j].text], <<",">>)],
                          <<"\n">>)]
      ELSE [ok |-> FALSE, text |-> <<>>]

\* Path.read_text(encoding=enc, errors=errors), and the text open() gives.
read_text(path, enc, errors) == decode(path.content, enc, errors)

\* str.splitlines() of a text whose only line break is "\n": a text that
\* ends in a line break has no empty last line.
splitlines(text) ==
  LET parts == split(text, "\n")
  IN  IF parts[Len(parts)] = <<>> THEN SubSeq(parts, 1, Len(parts) - 1) ELSE parts

\* One row of csv.reader for a line without quotes: the cells between the
\* commas; an empty line is a row of no cells.
csv_row(line) == IF line = <<>> THEN <<>> ELSE split(line, ",")

\* list(csv.reader(lines))
csv_reader(lines) == [i \in 1..Len(lines) |-> csv_row(lines[i])]

\* any(c.strip() for c in r)
any_cell(r) == \E i \in 1..Len(r) : strip(r[i]) # <<>>

\* ------------------------------------------------------------------------
\* Readers and the format probe

\* The encodings _read_csv tries, in its order.
CSV_ENCODINGS == <<"utf-8-sig", "utf-8", "shift-jis", "cp932">>

\* The encodings _read_npa_csv and _is_npa_monthly_format try, in their order.
NPA_ENCODINGS == <<"shift-jis", "cp932", "utf-8-sig", "utf-8">>

\* The rows _read_csv keeps of a decoded text.
csv_rows(text) == SelectSeq(csv_reader(splitlines(text)), any_cell)

\* _read_csv from the k-th encoding on: the first encoding that decodes and
\* leaves a row wins; ValueError when none does.
RECURSIVE read_csv_from(_, _)
read_csv_from(path, k) ==
  IF k > Len(CSV_ENCODINGS) THEN [raised |-> TRUE, headers |-> <<>>, rows |-> <<>>]
  ELSE LET d    == read_text(path, CSV_ENCODINGS[k], "strict")
           rows == IF d.ok THEN csv_rows(d.text) ELSE <<>>
       IN  IF d.ok /\ rows # <<>>
           THEN [raised |-> FALSE, headers |-> rows[1], rows |-> Tail(rows)]
           ELSE read_csv_from(path, k + 1)

_read_csv(path) == read_csv_from(path, 1)

\* _read_npa_csv from the k-th encoding on: every row of the first encoding
\* that open(..., errors="replace") and csv.reader get through.
RECURSIVE read_npa_csv_from(_, _)
read_npa_csv_from(path, k) ==
  IF k > Len(NPA_ENCODINGS) THEN [raised |-> TRUE, rows |-> <<>>]
  ELSE LET d == read_text(path, NPA_ENCODINGS[k], "replace")
       IN  IF d.ok THEN [raised |-> FALSE, rows |-> csv_reader(splitlines(d.text))]
           ELSE read_npa_csv_from(path, k + 1)

_read_npa_csv(path) == read_npa_csv_from(path, 1)

\* The two spellings of the Table-1 marker: 第１表, 第1表
MARKER_FULLWIDTH == <<"u7B2C", "uFF11", "u8868">>

MARKER_ASCII == <<"u7B2C", "1", "u8868">>

\* The number of characters _is_npa_monthly_format looks at.
PROBE_CHARS == 200

\* text[:n]
first_chars(text, n) == SubSeq(text, 1, IF Len(text) < n THEN Len(text) ELSE n)

RECURSIVE is_npa_monthly_format_from(_, _)
is_npa_monthly_format_from(path, k) ==
  IF k > Len(NPA_ENCODINGS) THEN FALSE
  ELSE LET d     == read_text(path, NPA_ENCODINGS[k], "replace")
           first == first_chars(d.text, PROBE_CHARS)
       IN  IF d.ok THEN contains(first, MARKER_FULLWIDTH) \/ contains(first, MARKER_ASCII)
           ELSE is_npa_monthly_format_from(path, k + 1)

_is_npa_monthly_format(path) == is_npa_monthly_format_from(path, 1)

\* ------------------------------------------------------------------------
\* Parsers

DIGITS == <<"0", "1", "2", "3", "4", "5", "6", "7", "8", "9">>

\* The fullwidth digits ０..９, which str.isdigit() and int() take as well.
FULLWIDTH_DIGITS ==
  <<"uFF10", "uFF11", "uFF12", "uFF13", "uFF14", "uFF15", "uFF16", "uFF17", "uFF18", "uFF19">>

is_digit(c) ==
  \E d \in 1..10 : DIGITS[d] = c \/ FULLWIDTH_DIGITS[d] = c

digit_value(c) ==
  (CHOOSE d \in 1..10 : DIGITS[d] = c \/ FULLWIDTH_DIGITS[d] = c) - 1

\* str.isdigit(): not empty, every character a digit
isdigit(s) == s # <<>> /\ \A i \in 1..Len(s) : is_digit(s[i])

\* int(s) of a string of digits
RECURSIVE int_of(_)
int_of(s) ==
  IF s = <<>> THEN 0 ELSE 10 * int_of(SubSeq(s, 1, Len(s) - 1)) + digit_value(s[Len(s)])

\* s.replace(c, "") for each character c of a set
remove_chars(s, cs) == SelectSeq(s, LAMBDA c : c \notin cs)

\* Variant: a cell that is no integer counts as zero.
_parse_int_zero_default(s) ==
  LET t == remove_chars(strip(s), {",", "u2212", "-", "uFF0D"})
      u == IF t # <<>> /\ t[1] = "+" THEN Tail(t) ELSE t
  IN  IF isdigit(u) THEN Some(int_of(u)) ELSE Some(0)

\* _parse_int: the cell without blanks at its ends, commas and minus signs
\* (U+2212, "-", U+FF0D); None unless int() takes what is left, a run of
\* digits, which a "+" may precede.
_parse_int(s) ==
  LET t == remove_chars(strip(s), {",", "u2212", "-", "uFF0D"})
      u == IF t # <<>> /\ t[1] = "+" THEN Tail(t) ELSE t
  IN  IF isdigit(u) THEN Some(int_of(u)) ELSE None

\* list.index(x): the first position of x, counted from 1
index_of(h, x) == min_of({i \in 1..Len(h) : h[i] = x})

\* str.lower() of the ASCII letters
UPPER == <<"A", "B", "C", "D", "E", "F", "G", "H", "I", "J", "K", "L", "M",
           "N", "O", "P", "Q", "R", "S", "T", "U", "V", "W", "X", "Y", "Z">>

LOWER == <<"a", "b", "c", "d", "e", "f", "g", "h", "i", "j", "k", "l", "m",
           "n", "o", "p", "q", "r", "s", "t", "u", "v", "w", "x", "y", "z">>

lower(s) ==
  [i \in 1..Len(s) |->
     IF \E k \in 1..26 : UPPER[k] = s[i]
     THEN LOWER[CHOOSE k \in 1..26 : UPPER[k] = s[i]]
     ELSE s[i]]

\* A prefecture cell that is no prefecture: empty, 全国, 計, or one holding 管区.
is_rollup(pref) ==
  \/ pref = <<>>
  \/ pref \in { <<"u5168", "u56FD">>, <<"u8A08">> }
  \/ contains(pref, <<"u7BA1", "u533A">>)

record(year, pref, crime, recognized, cleared, arrested) ==
  [year             |-> year,
   prefecture_name  |-> pref,
   crime_category   |-> crime,
   count_recognized |-> recognized,
   count_cleared    |-> cleared,
   count_arrested   |-> arrested]

\* Header names of the e-Stat layouts.
COL_DATE       == <<"u65E5", "u4ED8">>
COL_CRIME      == <<"u7F6A", "u7A2E">>
COL_PREF       == <<"u90FD", "u9053", "u5E9C", "u770C">>
COL_RECOGNIZED == <<"u8A8D", "u77E5", "u4EF6", "u6570">>
COL_CLEARED    == <<"u691C", "u6319", "u4EF6", "u6570">>
COL_ARRESTED   == <<"u691C", "u6319", "u4EBA", "u54E1">>

\* h = [c.strip() for c in headers]
stripped(headers) == [i \in 1..Len(headers) |-> strip(headers[i])]

\* Format A of parse_rows: the header has a 日付 and a 罪種 column.
is_date_keyed(h) ==
  (\E i \in 1..Len(h) : h[i] = COL_DATE) /\ (\E i \in 1..Len(h) : h[i] = COL_CRIME)

has_col(h, name) == \E i \in 1..Len(h) : h[i] = name

\* max(idx.values()): the last first-position of a header name
max_idx(h) == CHOOSE m \in 1..Len(h) :
  /\ index_of(h, h[m]) = m
  /\ \A i \in 1..Len(h) : index_of(h, h[i]) <= m

\* One row of format A: <<>> when the row is passed over, else its record.
date_keyed_row(h, row, default_year) ==
  IF Len(row) < max_idx(h) THEN <<>>
  ELSE
    LET date     == row[index_of(h, COL_DATE)]
        year_str == SubSeq(date, 1, IF Len(date) < 4 THEN Len(date) ELSE 4)
        year     == IF isdigit(year_str) THEN Some(int_of(year_str)) ELSE default_year
        pref_idx == IF has_col(h, COL_PREF) THEN index_of(h, COL_PREF)
                    ELSE IF has_col(h, <<"p", "r", "e", "f", "e", "c", "t", "u", "r", "e">>) THEN index_of(h, <<"p", "r", "e", "f", "e", "c", "t", "u", "r", "e">>)
                    ELSE 1
        pref     == strip(row[pref_idx])
        crime    == strip(row[index_of(h, COL_CRIME)])
        recognized == IF has_col(h, COL_RECOGNIZED)
                      THEN _parse_int(row[index_of(h, COL_RECOGNIZED)]) ELSE None
        cleared    == IF has_col(h, COL_CLEARED)
                      THEN _parse_int(row[index_of(h, COL_CLEARED)]) ELSE None
        arrested   == IF has_col(h, COL_ARRESTED)
                      THEN _parse_int(row[index_of(h, COL_ARRESTED)]) ELSE None
    IN  IF is_rollup(pref) THEN <<>>
        ELSE <<record(year, pref, crime, recognized, cleared, arrested)>>

\* next((i for i, c in enumerate(h) if ...), None): the first column, counted
\* from 1, whose header passes the test; 0 for None.
first_col(h, Test(_)) ==
  IF \E i \in 1..Len(h) : Test(h[i]) THEN min_of({i \in 1..Len(h) : Test(h[i])}) ELSE 0

pref_col(h)   == first_col(h, LAMBDA c : contains(c, COL_PREF) \/ c = <<"p", "r", "e", "f", "e", "c", "t", "u", "r", "e">>)
crime_col(h)  == first_col(h, LAMBDA c : contains(c, COL_CRIME) \/ contains(lower(c), <<"c", "a", "t", "e", "g", "o", "r", "y">>))
recog_col(h)  == first_col(h, LAMBDA c : contains(c, COL_RECOGNIZED))
clear_col(h)  == first_col(h, LAMBDA c : contains(c, COL_CLEARED))
arrest_col(h) == first_col(h, LAMBDA c : contains(c, COL_ARRESTED))
year_col(h)   == first_col(h, LAMBDA c : c = <<"u5E74">> \/ contains(lower(c), <<"y", "e", "a", "r">>))

\* Format B of parse_rows: a prefecture column and a recognized-count column
\* are found.
is_simple(h) == pref_col(h) # 0 /\ recog_col(h) # 0

\* The columns format B reads in every row it looks at, and those it reads
\* besides for a row it keeps.  clear_col and arrest_col are read only when
\* their position, counted from 0, is not 0.
simple_cols_first(h) ==
  {pref_col(h)}
  \cup (IF crime_col(h) # 0 THEN {crime_col(h)} ELSE {})
  \cup (IF year_col(h) # 0 THEN {year_col(h)} ELSE {})

simple_cols_record(h) ==
  {recog_col(h)}
  \cup (IF clear_col(h) > 1 THEN {clear_col(h)} ELSE {})
  \cup (IF arrest_col(h) > 1 THEN {arrest_col(h)} ELSE {})

\* Variant: the category column is not read and every record is of 総数.
simple_row_total_only(h, row, default_year) ==
  IF row = <<>> \/ Len(row) < recog_col(h) THEN [exc |-> "none", records |-> <<>>]
  ELSE IF \E c \in simple_cols_first(h) : c > Len(row)
  THEN [exc |-> "IndexError", records |-> <<>>]
  ELSE
    LET pref  == strip(row[pref_col(h)])
        crime == <<"u7DCF", "u6570">>
        year  == IF year_col(h) # 0 /\ isdigit(row[year_col(h)])
                 THEN Some(int_of(row[year_col(h)])) ELSE default_year
    IN  IF is_rollup(pref) THEN [exc |-> "none", records |-> <<>>]
        ELSE IF \E c \in simple_cols_record(h) : c > Len(row)
        THEN [exc |-> "IndexError", records |-> <<>>]
        ELSE [exc |-> "none",
              records |-> <<record(year, pref, crime,
                  _parse_int(row[recog_col(h)]),
                  IF clear_col(h) > 1 THEN _parse_int(row[clear_col(h)]) ELSE None,
                  IF arrest_col(h) > 1 THEN _parse_int(row[arrest_col(h)]) ELSE None)>>]

\* One row of format B: it is passed over, it gives a record, or a cell
\* the code reads lies beyond the end of the row (IndexError).
simple_row(h, row, default_year) ==
  IF row = <<>> \/ Len(row) < recog_col(h) THEN [exc |-> "none", records |-> <<>>]
  ELSE IF \E c \in simple_cols_first(h) : c > Len(row)
  THEN [exc |-> "IndexError", records |-> <<>>]
  ELSE
    LET pref  == strip(row[pref_col(h)])
        crime == IF crime_col(h) # 0 THEN strip(row[crime_col(h)]) ELSE <<"u7DCF", "u6570">>
        year  == IF year_col(h) # 0 /\ isdigit(row[year_col(h)])
                 THEN Some(int_of(row[year_col(h)])) ELSE default_year
    IN  IF is_rollup(pref) THEN [exc |-> "none", records |-> <<>>]
        ELSE IF \E c \in simple_cols_record(h) : c > Len(row)
        THEN [exc |-> "IndexError", records |-> <<>>]
        ELSE [exc |-> "none",
              records |-> <<record(year, pref, crime,
                  _parse_int(row[recog_col(h)]),
                  IF clear_col(h) > 1 THEN _parse_int(row[clear_col(h)]) ELSE None,
                  IF arrest_col(h) > 1 THEN _parse_int(row[arrest_col(h)]) ELSE None)>>]

\* The records of the rows from the i-th on, in order, after those of acc;
\* the first row that raises ends the parse.
RECURSIVE simple_rows_from(_, _, _, _, _)
simple_rows_from(h, rows, default_year, i, acc) ==
  IF i > Len(rows) THEN [exc |-> "none", records |-> acc]
  ELSE LET r == simple_row(h, rows[i], default_year)
       IN  IF r.exc # "none" THEN [exc |-> r.exc, records |-> <<>>]
           ELSE simple_rows_from(h, rows, default_year, i + 1, acc \o r.records)

RECURSIVE date_keyed_rows_from(_, _, _, _, _)
date_keyed_rows_from(h, rows, default_year, i, acc) ==
  IF i > Len(rows) THEN acc
  ELSE date_keyed_rows_from(h, rows, default_year, i + 1,
                            acc \o date_keyed_row(h, rows[i], default_year))

\* The layout parse_rows takes the header for.
layout_of(headers) ==
  IF is_date_keyed(stripped(headers)) THEN "date_keyed"
  ELSE IF is_simple(stripped(headers)) THEN "simple"
  ELSE "unsupported"

\* parse_rows: exc is the exception raised ("none": it returns records).
parse_rows(headers, rows, default_year) ==
  LET h == stripped(headers)
  IN  IF layout_of(headers) = "date_keyed"
      THEN [exc |-> "none", records |-> date_keyed_rows_from(h, rows, default_year, 1, <<>>)]
      ELSE IF layout_of(headers) = "simple"
      THEN simple_rows_from(h, rows, default_year, 1, <<>>)
      ELSE [exc |-> "ValueError", records |-> <<>>]

\* Path(filename).name: what follows the last "/"
basename(name) ==
  IF \E i \in 1..Len(name) : name[i] = "/"
  THEN SubSeq(name, max_of({i \in 1..Len(name) : name[i] = "/"}) + 1, Len(name))
  ELSE name

\* _year_from_reiwa_filename: re.match(r"[rR](\d+)_", name), 2018 + the number
_year_from_reiwa_filename(filename) ==
  LET name == basename(filename)
      ends == {k \in 3..Len(name) :
                 /\ name[k] = "_"
                 /\ \A i \in 2..(k - 1) : is_digit(name[i])}
  IN  IF name # <<>> /\ name[1] \in {"r", "R"} /\ ends # {}
      THEN Some(2018 + int_of(SubSeq(name, 2, min_of(ends) - 1)))
      ELSE None

\* str.endswith
endswith(s, suffix) ==
  Len(s) >= Len(suffix) /\ SubSeq(s, Len(s) - Len(suffix) + 1, Len(s)) = suffix

\* str.startswith
startswith(s, prefix) == Len(s) >= Len(prefix) /\ SubSeq(s, 1, Len(prefix)) = prefix

\* Variant: a second cell that ends in 都 or 道 names a prefecture as well.
_pref_from_row_any_suffix(col0, col1) ==
  LET c0 == strip(col0)
      c1 == strip(col1)
  IN  IF c0 = <<"u5317", "u6D77", "u9053">> /\ c1 = <<"u8A08">> THEN Some(<<"u5317", "u6D77", "u9053">>)
      ELSE IF c0 = <<"u6771", "u4EAC", "u90FD">> /\ c1 = <<>> THEN Some(<<"u6771", "u4EAC", "u90FD">>)
      ELSE IF \E x \in {"u90FD", "u9053", "u5E9C", "u770C"} : endswith(c1, <<x>>) THEN Some(c1)
      ELSE None

\* _pref_from_row: the prefecture a row of Table 3 or Table 6 is about, None
\* for a row to pass over.
_pref_from_row(col0, col1) ==
  LET c0 == strip(col0)
      c1 == strip(col1)
  IN  IF c0 = <<"u5317", "u6D77", "u9053">> /\ c1 = <<"u8A08">> THEN Some(<<"u5317", "u6D77", "u9053">>)
      ELSE IF c0 = <<"u6771", "u4EAC", "u90FD">> /\ c1 = <<>> THEN Some(<<"u6771", "u4EAC", "u90FD">>)
      ELSE IF endswith(c1, <<"u5E9C">>) \/ endswith(c1, <<"u770C">>) THEN Some(c1)
      ELSE None

\* One row of a section: <<>> when it is passed over, else its record.
npa_row(row, year, crime_category) ==
  IF Len(row) < 11 THEN <<>>
  ELSE LET pref       == _pref_from_row(row[1], row[2])
           recognized == _parse_int(row[3])
           cleared    == _parse_int(row[7])
           arrested   == _parse_int(row[11])
       IN  IF pref = None \/ pref[1] = <<>> THEN <<>>
           ELSE IF recognized = None THEN <<>>
           ELSE <<record(year, pref[1], crime_category, recognized, cleared, arrested)>>

\* _parse_npa_table_section: the records of rows[start:end], positions
\* counted from 0 as in the code.
RECURSIVE _parse_npa_table_section(_, _, _, _, _)
_parse_npa_table_section(rows, start, end, year, crime_category) ==
  IF start >= end \/ start >= Len(rows) THEN <<>>
  ELSE npa_row(rows[start + 1], year, crime_category)
       \o _parse_npa_table_section(rows, start + 1, end, year, crime_category)

\* The characters that open and close a parenthetical: （ ( and ） )
OPENERS == {"uFF08", "("}

CLOSERS == {"uFF09", ")"}

\* re.search(r"[（(]([^）)]+)[）)]", text): what the leftmost match has
\* between its brackets, None when nothing matches.
parenthetical(text) ==
  LET closers_after(p) == {q \in (p + 2)..Len(text) : text[q] \in CLOSERS}
      starts == {p \in 1..(Len(text) - 2) :
                   /\ text[p] \in OPENERS
                   /\ text[p + 1] \notin CLOSERS
                   /\ closers_after(p) # {}}
  IN  IF starts = {} THEN None
      ELSE Some(SubSeq(text, min_of(starts) + 1, min_of(closers_after(min_of(starts))) - 1))

\* Labels of Table 6 sub-tables that are totals of other sub-tables.
DENYLIST ==
  { <<"u91CD", "u8981", "u72AF", "u7F6A", "u7DCF", "u6570">>, <<"u91CD", "u8981", "u7A83", "u76D7", "u72AF", "u7DCF", "u6570">>, <<"u4FB5", "u5165", "u76D7", "u2212", "u4F4F", "u5B85", "u5BFE", "u8C61">>, <<"u4FB5", "u5165", "u76D7", "u2212", "u305D", "u306E", "u4ED6">> }

\* row[:n]
first_cells(row, n) == SubSeq(row, 1, IF Len(row) < n THEN Len(row) ELSE n)

\* The crime category of the section a row starts, None for a row that
\* starts no section.
section_label(row) ==
  IF row = <<>> THEN None
  ELSE IF row[1] = <<>> THEN None
  ELSE
    LET cell0 == strip(row[1])
    IN  IF \/ cell0 = <<"u7B2C", "uFF13", "u8868">>
           \/ /\ startswith(cell0, <<"u7B2C">>)
              /\ contains(join(first_cells(row, 6), <<>>), <<"u5211", "u6CD5", "u72AF", "u7DCF", "u6570">>)
        THEN Some(<<"u5211", "u6CD5", "u72AF", "u7DCF", "u6570">>)
        ELSE IF /\ cell0 = <<"u7B2C", "uFF14", "u8868">>
                /\ \E i \in 1..Len(first_cells(row, 6)) : contains(row[i], <<"u7A83", "u76D7">>)
        THEN Some(<<"u7A83", "u76D7", "u72AF">>)
        ELSE IF cell0 = <<"u7B2C", "uFF16", "u8868">>
        THEN LET m == parenthetical(join(row, <<>>))
             IN  IF m # None /\ strip(m[1]) \notin DENYLIST THEN Some(strip(m[1])) ELSE None
        ELSE None

\* section_starts: for each row that starts a section, in file order, its
\* position counted from 0 and the section's crime category.
RECURSIVE section_starts_from(_, _)
section_starts_from(rows, i) ==
  IF i > Len(rows) THEN <<>>
  ELSE (IF section_label(rows[i]) = None THEN <<>>
        ELSE << <<i - 1, section_label(rows[i])[1]>> >>)
       \o section_starts_from(rows, i + 1)

\* Variant: the scan runs to the end of the file, past end_row and past the
\* fifteenth row.
data_start_of_unbounded(rows, start_row, end_row) ==
  LET hits == {j \in (start_row + 1)..(Len(rows) - 1) :
                 Len(rows[j + 1]) > 2 /\ _parse_int(rows[j + 1][3]) # None}
  IN  IF hits # {} THEN min_of(hits) ELSE start_row + 1

\* The first data row of a section: the first of the rows after start_row,
\* up to 14 of them and before end_row, whose third cell is an integer; the
\* row after start_row when there is none.  Positions are counted from 0.
data_start_of(rows, start_row, end_row) ==
  LET last == (IF start_row + 15 < end_row THEN start_row + 15 ELSE end_row) - 1
      hits == {j \in (start_row + 1)..last :
                 Len(rows[j + 1]) > 2 /\ _parse_int(rows[j + 1][3]) # None}
  IN  IF hits # {} THEN min_of(hits) ELSE start_row + 1

\* The records of the sections from the idx-th on.
RECURSIVE sections_from(_, _, _, _)
sections_from(rows, starts, idx, year) ==
  IF idx > Len(starts) THEN <<>>
  ELSE LET start_row == starts[idx][1]
           end_row   == IF idx + 1 <= Len(starts) THEN starts[idx + 1][1] ELSE Len(rows)
       IN  _parse_npa_table_section(rows, data_start_of(rows, start_row, end_row),
                                    end_row, year, starts[idx][2])
           \o sections_from(rows, starts, idx + 1, year)

\* Variant: the year of the file name is taken before the year given.
parse_npa_monthly_name_first(path, year) ==
  LET rd     == _read_npa_csv(path)
      named  == _year_from_reiwa_filename(path.name)
      y      == IF named = None THEN year ELSE named
      starts == section_starts_from(rd.rows, 1)
  IN  IF rd.raised THEN [exc |-> "ValueError", msg |-> "encoding", records |-> <<>>]
      ELSE IF y = None THEN [exc |-> "ValueError", msg |-> "year", records |-> <<>>]
      ELSE IF starts = <<>> THEN [exc |-> "ValueError", msg |-> "sections", records |-> <<>>]
      ELSE [exc |-> "none", msg |-> "", records |-> sections_from(rd.rows, starts, 1, y)]

\* Variant: a file without sections gives an empty list of records.
parse_npa_monthly_empty_ok(path, year) ==
  LET rd     == _read_npa_csv(path)
      y      == IF year = None THEN _year_from_reiwa_filename(path.name) ELSE year
      starts == section_starts_from(rd.rows, 1)
  IN  IF rd.raised THEN [exc |-> "ValueError", msg |-> "encoding", records |-> <<>>]
      ELSE IF y = None THEN [exc |-> "ValueError", msg |-> "year", records |-> <<>>]
      ELSE [exc |-> "none", msg |-> "", records |-> sections_from(rd.rows, starts, 1, y)]

\* parse_npa_monthly: exc is the exception raised ("none": it returns
\* records) and msg tells the ValueErrors apart.
parse_npa_monthly(path, year) ==
  LET rd     == _read_npa_csv(path)
      y      == IF year = None THEN _year_from_reiwa_filename(path.name) ELSE year
      starts == section_starts_from(rd.rows, 1)
  IN  IF rd.raised THEN [exc |-> "ValueError", msg |-> "encoding", records |-> <<>>]
      ELSE IF y = None THEN [exc |-> "ValueError", msg |-> "year", records |-> <<>>]
      ELSE IF starts = <<>> THEN [exc |-> "ValueError", msg |-> "sections", records |-> <<>>]
      ELSE [exc |-> "none", msg |-> "", records |-> sections_from(rd.rows, starts, 1, y)]

\* The format dispatch of main() on a file: the layout it takes the file
\* for, how it ends ("ok", "sys_exit" after a caught ValueError, "traceback"
\* for an exception nothing catches), the header an unsupported-format error
\* reports, and the records.
main_dispatch(path, year) ==
  IF _is_npa_monthly_format(path)
  THEN LET p == parse_npa_monthly(path, year)
       IN  [layout |-> "multi_section", headers |-> <<>>, records |-> p.records,
            how |-> IF p.exc = "none" THEN "ok"
                    ELSE IF p.exc = "ValueError" THEN "sys_exit" ELSE "traceback"]
  ELSE LET r == _read_csv(path)
       IN  IF r.raised
           THEN [layout |-> "unread", headers |-> <<>>, records |-> <<>>, how |-> "traceback"]
           ELSE LET p == parse_rows(r.headers, r.rows, year)
                IN  [layout |-> layout_of(r.headers), headers |-> r.headers,
                     records |-> p.records,
                     how |-> IF p.exc = "none" THEN "ok"
                             ELSE IF p.exc = "ValueError" THEN "sys_exit" ELSE "traceback"]

\* ------------------------------------------------------------------------
\* Files on disk
\*
\* The files the readers are given: a text of a few lines, written in one
\* of the encodings, whole or cut off after the first byte of a two-byte
\* character.

MaxLines == 2

Hiduke      == <<"u65E5", "u4ED8">>                     \* 日付
Zaishu      == <<"u7F6A", "u7A2E">>                     \* 罪種
Todofuken   == <<"u90FD", "u9053", "u5E9C", "u770C">>   \* 都道府県
NinchiKensu == <<"u8A8D", "u77E5", "u4EF6", "u6570">>   \* 認知件数

\* Lines, each a sequence of cells.
TextLines ==
  { <<MARKER_FULLWIDTH>>,
    <<MARKER_ASCII, <<"a">>>>,
    <<Hiduke, Zaishu>>,
    <<Todofuken, NinchiKensu>>,
    <<Hiduke, Zaishu, Todofuken, NinchiKensu>>,
    <<<<"a">>, <<"1">>>>,
    <<<<" ">>, <<>>>>,
    <<>> }

\* The text of some lines, each ended by a line break.
RECURSIVE text_of(_)
text_of(lines) ==
  IF lines = <<>> THEN <<>>
  ELSE join(lines[1], <<",">>) \o <<"\n">> \o text_of(Tail(lines))

\* str.encode of a run of characters: the bytes a codec's table has for each
\* character.
RECURSIVE encode_with(_, _)
encode_with(table, text) ==
  IF text = <<>> THEN <<>>
  ELSE (CHOOSE k \in DOMAIN table : table[k] = text[1]) \o encode_with(table, Tail(text))

\* The bytes of a text, cell by cell.
encode(text, enc) ==
  LET table == IF enc = "shift-jis" THEN SHIFT_JIS ELSE UTF_8
      lines == split(text, "\n")
      bytes == join([i \in 1..Len(lines) |->
                       join([j \in 1..Len(split(lines[i], ",")) |->
                               encode_with(table, split(lines[i], ",")[j])],
                            <<44>>)],
                    <<10>>)
  IN  IF enc = "utf-8-sig" THEN BOM \o bytes ELSE bytes

FileEncodings == {"utf-8", "utf-8-sig", "shift-jis"}

\* The first byte of a two-byte shift-jis character, with nothing after it.
LONE_LEAD == <<145>>

PlainName == <<"a", ".", "c", "s", "v">>

TextsOf(lines, n) == {text_of(ls) : ls \in UNION {[1..k -> lines] : k \in 0..n}}

ReaderFiles ==
  {[name |-> PlainName, content |-> encode(t, e) \o cut] :
     t \in TextsOf(TextLines, MaxLines), e \in FileEncodings, cut \in {<<>>, LONE_LEAD}}

\* ------------------------------------------------------------------------
\* Input files
\*
\* A file is what main() can observe of it: which format its first
\* characters select, whether reading and parsing raise, and the data rows
\* the parser keeps (prefecture, category, the row's own year if it has a
\* numeric one, and the three counts).

MaxRecs == 2

MaxRuns == 3

Tokyoto  == <<"u6771", "u4EAC", "u90FD">>                  \* 東京都
Tokyo    == <<"u6771", "u4EAC">>                           \* 東京
Osakafu  == <<"u5927", "u962A", "u5E9C">>                  \* 大阪府
Atlantis == <<"A", "t", "l", "a", "n", "t", "i", "s">>     \* resolves to nothing
Tokyoken == <<"u6771", "u4EAC", "u770C">>                  \* 東京県, resolves to nothing
Settou   == <<"u7A83", "u76D7">>                           \* 窃盗

\* Prefecture cells parse_rows keeps: not empty, not a nationwide or regional
\* rollup.
EstatPrefNames == {Tokyoto, Tokyo, Atlantis}

\* Names _pref_from_row returns: 北海道, 東京都, or a cell ending in 府 or 県.
NpaPrefNames == {Tokyoto, Osakafu, Tokyoken}

Categories == {Settou}

\* (recognized, cleared, arrested)
CountTriples == { <<Some(1), None, Some(3)>>, <<Some(2), Some(0), None>> }

DataRows(names, years) ==
  {[prefecture_name  |-> p,
    crime_category   |-> c,
    year             |-> y,
    count_recognized |-> n[1],
    count_cleared    |-> n[2],
    count_arrested   |-> n[3]] :
     p \in names, c \in Categories, y \in years, n \in CountTriples}

RowSeqs(names, years) == UNION {[1..n -> DataRows(names, years)] : n \in 0..MaxRecs}

\* NPA monthly files: the file name may carry the era year (r05_...), the
\* rows carry no year.
NpaFiles ==
  {[format |-> "npa", reiwa |-> w, decodes |-> TRUE, layout_ok |-> TRUE,
    sections |-> TRUE, rows |-> rs] : w \in {None, Some(5)}, rs \in RowSeqs(NpaPrefNames, {None})}
  \cup
  {[format |-> "npa", reiwa |-> w, decodes |-> TRUE, layout_ok |-> TRUE,
    sections |-> FALSE, rows |-> <<>>] : w \in {None, Some(5)}}

\* e-Stat files: read by _read_csv, parsed by parse_rows.
EstatFiles ==
  {[format |-> "estat", reiwa |-> None, decodes |-> TRUE, layout_ok |-> TRUE,
    sections |-> FALSE, rows |-> rs] : rs \in RowSeqs(EstatPrefNames, {None, Some(2023)})}
  \cup
  {[format |-> "estat", reiwa |-> None, decodes |-> d, layout_ok |-> FALSE,
    sections |-> FALSE, rows |-> <<>>] : d \in BOOLEAN}

Files == NpaFiles \cup EstatFiles

\* --year
YearArgs == {None, Some(2023)}

\* ------------------------------------------------------------------------
\* Multi-Section files
\*
\* Files of a few lines in shift-jis: section headers of Table 3 and
\* Table 6, one of them with a label of DENYLIST, and rows of eleven cells.

MaxNpaLines == 3

\* A row of a section: the two name cells and the three counts in their
\* cells, the third, the seventh and the eleventh.
npa_cells(c0, c1, recognized, cleared, arrested) ==
  <<c0, c1, recognized, <<>>, <<>>, <<>>, cleared, <<>>, <<>>, <<>>, arrested>>

NpaLines ==
  { << <<"u7B2C", "uFF13", "u8868">> >>,
    << <<"u7B2C", "uFF16", "u8868">>, <<"uFF08", "u50B7", "u5BB3", "uFF09">> >>,
    << <<"u7B2C", "uFF16", "u8868">>, <<"uFF08", "u91CD", "u8981", "u72AF", "u7F6A", "u7DCF", "u6570", "uFF09">> >>,
    npa_cells(<<"u6771", "u4EAC", "u90FD">>, <<>>, <<"5">>, <<"4">>, <<"3">>),
    npa_cells(<<>>, <<"u5927", "u962A", "u5E9C">>, <<"7">>, <<"6">>, <<>>),
    npa_cells(<<>>, <<"u4EAC", "u90FD", "u5E9C">>, <<>>, <<"2">>, <<"1">>) }

NpaNames == { <<"r", "5", "_", "a", ".", "c", "s", "v">>, <<"R", "0", "6", "_", "a", ".", "c", "s", "v">>, <<"a", ".", "c", "s", "v">> }

NpaPaths ==
  {[name |-> n, content |-> encode(t, "shift-jis")] :
     n \in NpaNames, t \in TextsOf(NpaLines, MaxNpaLines)}

\* ------------------------------------------------------------------------
\* Header rows and data rows of the e-Stat layouts

MaxRows == 2

Headers ==
  { << COL_DATE, COL_PREF, COL_CRIME, COL_RECOGNIZED, COL_CLEARED >>,
    << COL_DATE, COL_CRIME >>,
    << COL_PREF, COL_RECOGNIZED >>,
    << <<"u5E74">>, COL_PREF, COL_CRIME, COL_RECOGNIZED, COL_CLEARED >>,
    << COL_RECOGNIZED, <<"p", "r", "e", "f", "e", "c", "t", "u", "r", "e">>, <<"Y", "e", "a", "r">> >>,
    << <<" ", "u90FD", "u9053", "u5E9C", "u770C", "u540D">>, <<"c", "r", "i", "m", "e", "_", "c", "a", "t", "e", "g", "o", "r", "y">>, <<"u8A8D", "u77E5", "u4EF6", "u6570", "uFF08", "u4EF6", "uFF09">> >>,
    << COL_PREF, COL_CRIME >>,
    << <<"a">>, <<"b">> >> }

Rows ==
  { << <<"2", "0", "2", "3", "-", "0", "4">>, <<"u6771", "u4EAC", "u90FD">>, <<"u7A83", "u76D7">>, <<"5">>, <<"3">> >>,
    << <<"x">>, <<"u5927", "u962A", "u5E9C">>, <<"u7A83", "u76D7">>, <<>>, <<"1">> >>,
    << <<"2", "0", "2", "2">>, <<" ", "u6771", "u4EAC", " ">>, <<"u50B7", "u5BB3">>, <<"-", "1", ",", "2", "3", "4">>, <<"-">> >>,
    << <<"2", "0", "2", "3", "-", "0", "4">>, <<"u5168", "u56FD">>, <<"u7A83", "u76D7">>, <<"9">>, <<"9">> >>,
    << <<"u6771", "u4EAC", "u90FD">>, <<"7">> >>,
    << <<"8">>, <<"u8FD1", "u757F", "u7BA1", "u533A">>, <<"2", "0", "2", "1">> >>,
    << <<"6">> >>,
    << <<"2", "0", "2", "3">>, <<"u5927", "u962A", "u5E9C">>, <<"u7A83", "u76D7">>, <<"4">> >>,
    << >> }

RowsCalls ==
  {[headers |-> h, rows |-> rs, default_year |-> y] :
     h \in Headers, rs \in UNION {[1..n -> Rows] : n \in 0..MaxRows}, y \in YearArgs}

\* ------------------------------------------------------------------------
\* Rows of a section of a Multi-Section file

MaxSectionRows == 3

\* The rows of 北海道 and 東京都, rows of a 府, a row without a recognized
\* count, the row of a district of 北海道, a row whose second cell ends in 都,
\* and a row of ten cells.
SectionRows ==
  { npa_cells(<<"u5317", "u6D77", "u9053">>, <<"u8A08">>, <<"1", "2">>, <<"3">>, <<"4">>),
    npa_cells(<<"u6771", "u4EAC", "u90FD">>, <<>>, <<"5">>, <<"4">>, <<"3">>),
    npa_cells(<<>>, <<"u5927", "u962A", "u5E9C">>, <<"7">>, <<"6">>, <<>>),
    npa_cells(<<>>, <<"u4EAC", "u90FD", "u5E9C">>, <<>>, <<"2">>, <<"1">>),
    npa_cells(<<"u5317", "u6D77", "u9053">>, <<"u672D", "u5E4C">>, <<"1">>, <<"1">>, <<"1">>),
    npa_cells(<<>>, <<"u6771", "u4EAC", "u90FD">>, <<"9">>, <<"8">>, <<"7">>),
    SubSeq(npa_cells(<<>>, <<"u9752", "u68EE", "u770C">>, <<"8">>, <<"8">>, <<"8">>), 1, 10) }

\* rows[start:end] of a list of rows, for the year 2023 and the category 窃盗
SectionCalls ==
  {[rows |-> rs, start |-> s, end |-> e, year |-> 2023, crime_category |-> Settou] :
     rs \in UNION {[1..n -> SectionRows] : n \in 0..MaxSectionRows},
     s \in 0..MaxSectionRows, e \in 0..MaxSectionRows}

\* A section as parse_npa_monthly meets it: rows ahead of its header, the
\* header, rows of labels, rows of data, and the header of the next section
\* with a row of data, or the end of the file.
MaxLabelRows == 16

LabelRow == << <<"u90FD", "u9053", "u5E9C", "u770C">>, <<>>, <<"u8A8D", "u77E5">> >>

CountRow == npa_cells(<<>>, <<"u5927", "u962A", "u5E9C">>, <<"7">>, <<"6">>, <<>>)

section_rows(ahead, labels, data, next) ==
  [i \in 1..ahead |-> LabelRow]
  \o << << <<"u7B2C", "uFF13", "u8868">> >> >>
  \o [i \in 1..labels |-> LabelRow]
  \o [i \in 1..data |-> CountRow]
  \o (IF next THEN << << <<"u7B2C", "uFF16", "u8868">>, <<"uFF08", "u50B7", "u5BB3", "uFF09">> >>, CountRow >>
      ELSE <<>>)

\* The first section of the rows: start_row and end_row as the loop of
\* parse_npa_monthly takes them from section_starts.
scan_call(rows) ==
  LET starts == section_starts_from(rows, 1)
  IN  [rows      |-> rows,
       start_row |-> starts[1][1],
       end_row   |-> IF Len(starts) > 1 THEN starts[2][1] ELSE Len(rows)]

ScanCalls ==
  {scan_call(section_rows(a, l, d, n)) :
     a \in 0..1, l \in 0..MaxLabelRows, d \in 0..2, n \in BOOLEAN}

\* ------------------------------------------------------------------------
\* Names and categories given to the resolvers

\* White space around a name: none, a space before it, an ideographic space
\* after it.
Paddings == { <<<<>>, <<>>>>, << <<" ">>, <<>> >>, << <<>>, <<"u3000">> >> }

padded(names) == {p[1] \o n \o p[2] : n \in names, p \in Paddings}

\* The names of the master table, the keys of the alias table, names the
\* substring pass resolves and names nothing resolves.
PrefInputs ==
  padded({PREFECTURE_MASTER[i][2] : i \in 1..Len(PREFECTURE_MASTER)}
         \cup {_PREF_ALIAS[i][1] : i \in 1..Len(_PREF_ALIAS)}
         \cup { <<"u6771", "u4EAC", "u90FD", "u8A08">>, <<"u770C">>, <<"u5CF6">>, <<>>, <<"A", "t", "l", "a", "n", "t", "i", "s">>, <<"u6771", "u4EAC", "u770C">>, <<"u3068", "u3046", "u304D", "u3087", "u3046">> })

\* The keys of the fine-grained table, categories with one umbrella keyword
\* or two, and categories with none.
CategoryInputs ==
  padded({CRIME_TYPE_MAP[i][1] : i \in 1..Len(CRIME_TYPE_MAP)}
         \cup { <<"u51F6", "u60AA", "u72AF", "u7DCF", "u6570">>, <<"u3046", "u3061", "u77E5", "u80FD", "u72AF">>, <<"u91CD", "u8981", "u72AF", "u7F6A", "u7A83", "u76D7", "u72AF">>, <<"u98A8", "u4FD7", "u72AF", "u30FB", "u7C97", "u66B4", "u72AF">>,
                <<"u5211", "u6CD5", "u72AF", "u7DCF", "u6570">>, <<"u7DCF", "u6570">>, <<>>, <<"u7A83", "u76D7", "u7F6A">> })

\* ------------------------------------------------------------------------
\* Parsing, as main() sees it

is_npa_monthly_format_of(file) == file.format = "npa"

year_from_reiwa_filename_of(file) ==
  IF file.reiwa = None THEN None ELSE Some(2018 + file.reiwa[1])

with_year(row, year) ==
  [year             |-> year,
   prefecture_name  |-> row.prefecture_name,
   crime_category   |-> row.crime_category,
   count_recognized |-> row.count_recognized,
   count_cleared    |-> row.count_cleared,
   count_arrested   |-> row.count_arrested]

\* parse_npa_monthly: raises ValueError when no year is known or no section
\* is found; every record carries the one resolved year.
parse_npa_monthly_of(file, year) ==
  LET y == IF year = None THEN year_from_reiwa_filename_of(file) ELSE year
  IN  IF y = None THEN [raised |-> TRUE, records |-> <<>>]
      ELSE IF ~file.sections THEN [raised |-> TRUE, records |-> <<>>]
      ELSE [raised |-> FALSE,
            records |-> [i \in 1..Len(file.rows) |-> with_year(file.rows[i], y)]]

\* _read_csv: raises ValueError when no encoding decodes the file.
read_csv_of(file) == [raised |-> ~file.decodes]

\* parse_rows: raises ValueError on an unknown header; a row's year is its
\* own when numeric and default_year otherwise.
parse_rows_of(file, default_year) ==
  IF ~file.layout_ok THEN [raised |-> TRUE, records |-> <<>>]
  ELSE [raised |-> FALSE,
        records |-> [i \in 1..Len(file.rows) |->
                       with_year(file.rows[i],
                                 IF file.rows[i].year = None THEN default_year
                                 ELSE file.rows[i].year)]]

\* Variant: the except clauses print the error and main() goes on
\* with no records instead of calling sys.exit(1); an undecodable file is read
\* as empty.
main_parse_goes_on(file, year) ==
  IF is_npa_monthly_format_of(file)
  THEN [how |-> "ok", records |-> parse_npa_monthly_of(file, year).records]
  ELSE IF read_csv_of(file).raised THEN [how |-> "ok", records |-> <<>>]
  ELSE [how |-> "ok", records |-> parse_rows_of(file, year).records]

\* The format dispatch of main(): how it ends ("ok": it goes on with the
\* records, "sys_exit": a caught ValueError and sys.exit(1), "traceback": an
\* exception nothing catches).
main_parse(file, year) ==
  IF is_npa_monthly_format_of(file)
  THEN LET p == parse_npa_monthly_of(file, year)
       IN  IF p.raised THEN [how |-> "sys_exit", records |-> <<>>]
           ELSE [how |-> "ok", records |-> p.records]
  ELSE IF read_csv_of(file).raised THEN [how |-> "traceback", records |-> <<>>]
  ELSE LET p == parse_rows_of(file, year)
       IN  IF p.raised THEN [how |-> "sys_exit", records |-> <<>>]
           ELSE [how |-> "ok", records |-> p.records]

\* The exit status of the process for each way a run ends.
exit_status(outcome) == IF outcome = "returned" THEN 0 ELSE 1

\* ------------------------------------------------------------------------
\* State

VARIABLES
  sink,      \* the committed content of prefecture_stats
  pc,        \* "idle", or where the current run of main() stands
  args,      \* the current run's arguments: file, year, dry_run
  records,   \* the parsed records
  plan,      \* _insert's write-set and skipped count
  result,    \* the (inserted, skipped) pair _insert returned, or None
  outcome,   \* how the run ended: "returned", "sys_exit", "traceback"
  calls,     \* statements the current run has sent to the sink
  sink0,     \* the sink when the current run started
  pin,       \* None, or the (file, year) every run of this behaviour uses
  hist,      \* the finished runs of a pinned behaviour, oldest first
  call_fn,   \* "none", or the function a function-level behaviour has called
  call_arg,  \* the arguments a function-level behaviour works on
  call_ret   \* what the called function returned or raised

run_vars == <<sink, pc, args, records, plan, result, outcome, calls, sink0, pin, hist>>

call_vars == <<call_fn, call_arg, call_ret>>

vars == <<run_vars, call_vars>>

\* No function-level call is under way.
NoCall == call_fn = "none" /\ call_arg = None /\ call_ret = None

NoPlan == [deduped |-> <<>>, skipped |-> 0]

Init ==
  /\ sink = EmptyBag
  /\ pc = "idle"
  /\ args = None
  /\ records = <<>>
  /\ plan = NoPlan
  /\ result = None
  /\ outcome = "none"
  /\ calls = 0
  /\ sink0 = EmptyBag
  /\ pin = None
  /\ hist = <<>>
  /\ NoCall

\* The same, for behaviours that import one file with one --year again and
\* again, after an optional dry run of it.
InitSameFile ==
  /\ sink = EmptyBag
  /\ pc = "idle"
  /\ args = None
  /\ records = <<>>
  /\ plan = NoPlan
  /\ result = None
  /\ outcome = "none"
  /\ calls = 0
  /\ sink0 = EmptyBag
  /\ pin \in {<<f, y>> : f \in Files, y \in YearArgs}
  /\ hist = <<>>
  /\ NoCall

\* ------------------------------------------------------------------------
\* Actions

\* The operator starts  import_estat.py <file> [--year y] [--dry-run].  In a
\* pinned behaviour the file and --year are the pinned ones, only the first run
\* may be a dry run, and at most MaxRuns runs are made.
Start ==
  /\ pc = "idle"
  /\ Len(hist) < MaxRuns
  /\ \E fy \in (IF pin = None THEN Files \X YearArgs ELSE {pin}),
        d \in (IF pin = None \/ hist = <<>> THEN BOOLEAN ELSE {FALSE}) :
       args' = [file |-> fy[1], year |-> fy[2], dry_run |-> d]
  /\ pc' = "main"
  /\ sink0' = sink
  /\ UNCHANGED <<sink, records, plan, result, outcome, calls, pin, hist, call_vars>>

\* main() from the format dispatch to the empty-records test.
MainParse ==
  /\ pc = "main"
  /\ LET p == main_parse(args.file, args.year)
     IN  IF p.how # "ok"
         THEN pc' = "done" /\ outcome' = p.how /\ records' = <<>>
         ELSE IF p.records = <<>>
         THEN pc' = "done" /\ outcome' = "returned" /\ records' = <<>>
         ELSE pc' = "insert" /\ outcome' = outcome /\ records' = p.records
  /\ UNCHANGED <<sink, args, plan, result, calls, sink0, pin, hist, call_vars>>

\* Variant: the dry-run test is missing and every run goes on to write.
InsertPlanIgnoresDryRun ==
  /\ pc = "insert"
  /\ plan' = insert_plan(records)
  /\ pc' = "write"
  /\ UNCHANGED <<sink, args, records, result, outcome, calls, sink0, pin, hist, call_vars>>

\* _insert() up to the dry-run return.
InsertPlan ==
  /\ pc = "insert"
  /\ plan' = insert_plan(records)
  /\ IF args.dry_run
     THEN /\ result' = <<Len(plan'.deduped), plan'.skipped>>
          /\ outcome' = "returned"
          /\ pc' = "done"
     ELSE /\ result' = result
          /\ outcome' = outcome
          /\ pc' = "write"
  /\ UNCHANGED <<sink, args, records, calls, sink0, pin, hist, call_vars>>

\* _insert() from SessionLocal() to its return: the upsert and the commit,
\* or the exception that execute raised.
InsertWrite ==
  /\ pc = "write"
  /\ LET w == db_write(sink, plan.deduped)
     IN  /\ sink' = w.table
         /\ calls' = calls + w.statements
         /\ IF w.ok
            THEN result' = <<Len(plan.deduped), plan.skipped>> /\ outcome' = "returned"
            ELSE result' = result /\ outcome' = "traceback"
  /\ pc' = "done"
  /\ UNCHANGED <<args, records, plan, sink0, pin, hist, call_vars>>

\* The process has ended; the next run may start.
Finish ==
  /\ pc = "done"
  /\ pc' = "idle"
  /\ hist' = IF pin = None THEN hist
             ELSE Append(hist, [dry_run |-> args.dry_run, outcome |-> outcome,
                                result |-> result, before |-> sink0, after |-> sink])
  /\ args' = None
  /\ records' = <<>>
  /\ plan' = NoPlan
  /\ result' = None
  /\ outcome' = "none"
  /\ calls' = 0
  /\ sink0' = EmptyBag
  /\ UNCHANGED <<sink, pin, call_vars>>

Next ==
  \/ Start
  \/ MainParse
  \/ InsertPlan
  \/ InsertWrite
  \/ Finish

Spec == Init /\ [][Next]_vars

SpecSameFile == InitSameFile /\ [][Next]_vars

\* ------------------------------------------------------------------------
\* Function-level behaviours: one function of the module is called on one
\* argument; no run of main() is under way.

NoRun ==
  /\ sink = EmptyBag
  /\ pc = "idle"
  /\ args = None
  /\ records = <<>>
  /\ plan = NoPlan
  /\ result = None
  /\ outcome = "none"
  /\ calls = 0
  /\ sink0 = EmptyBag
  /\ pin = None
  /\ hist = <<>>

\* The call of fn has returned.
Returned(fn) == call_fn = fn /\ call_ret # None

InitReader ==
  /\ NoRun
  /\ \/ /\ call_fn \in {"_read_csv", "_read_npa_csv", "_is_npa_monthly_format"}
        /\ call_arg \in {[path |-> p] : p \in ReaderFiles}
     \/ /\ call_fn = "main_dispatch"
        /\ call_arg \in {[path |-> p, year |-> y] : p \in ReaderFiles, y \in YearArgs}
  /\ call_ret = None

Call_read_csv ==
  /\ call_fn = "_read_csv"
  /\ call_ret = None
  /\ call_ret' = Some(_read_csv(call_arg.path))
  /\ UNCHANGED <<call_fn, call_arg, run_vars>>

Call_read_npa_csv ==
  /\ call_fn = "_read_npa_csv"
  /\ call_ret = None
  /\ call_ret' = Some(_read_npa_csv(call_arg.path))
  /\ UNCHANGED <<call_fn, call_arg, run_vars>>

Call_is_npa_monthly_format ==
  /\ call_fn = "_is_npa_monthly_format"
  /\ call_ret = None
  /\ call_ret' = Some(_is_npa_monthly_format(call_arg.path))
  /\ UNCHANGED <<call_fn, call_arg, run_vars>>

Call_main_dispatch ==
  /\ call_fn = "main_dispatch"
  /\ call_ret = None
  /\ call_ret' = Some(main_dispatch(call_arg.path, call_arg.year))
  /\ UNCHANGED <<call_fn, call_arg, run_vars>>

NextReader ==
  \/ Call_read_csv
  \/ Call_read_npa_csv
  \/ Call_is_npa_monthly_format
  \/ Call_main_dispatch

SpecReader == InitReader /\ [][NextReader]_vars

InitParse ==
  /\ NoRun
  /\ \/ /\ call_fn = "parse_npa_monthly"
        /\ call_arg \in {[path |-> p, year |-> y] : p \in NpaPaths, y \in YearArgs}
     \/ /\ call_fn = "parse_rows"
        /\ call_arg \in RowsCalls
  /\ call_ret = None

Call_parse_npa_monthly ==
  /\ call_fn = "parse_npa_monthly"
  /\ call_ret = None
  /\ call_ret' = Some(parse_npa_monthly(call_arg.path, call_arg.year))
  /\ UNCHANGED <<call_fn, call_arg, run_vars>>

Call_parse_rows ==
  /\ call_fn = "parse_rows"
  /\ call_ret = None
  /\ call_ret' = Some(parse_rows(call_arg.headers, call_arg.rows, call_arg.default_year))
  /\ UNCHANGED <<call_fn, call_arg, run_vars>>

NextParse ==
  \/ Call_parse_npa_monthly
  \/ Call_parse_rows

SpecParse == InitParse /\ [][NextParse]_vars

InitResolve ==
  /\ NoRun
  /\ \/ /\ call_fn = "_lookup_pref"
        /\ call_arg \in {[name |-> n] : n \in PrefInputs}
     \/ /\ call_fn = "_map_crime_type"
        /\ call_arg \in {[category |-> c] : c \in CategoryInputs}
  /\ call_ret = None

Call_lookup_pref ==
  /\ call_fn = "_lookup_pref"
  /\ call_ret = None
  /\ call_ret' = Some(_lookup_pref(call_arg.name))
  /\ UNCHANGED <<call_fn, call_arg, run_vars>>

Call_map_crime_type ==
  /\ call_fn = "_map_crime_type"
  /\ call_ret = None
  /\ call_ret' = Some(_map_crime_type(call_arg.category))
  /\ UNCHANGED <<call_fn, call_arg, run_vars>>

NextResolve ==
  \/ Call_lookup_pref
  \/ Call_map_crime_type

SpecResolve == InitResolve /\ [][NextResolve]_vars

InitSection ==
  /\ NoRun
  /\ \/ /\ call_fn = "_parse_npa_table_section"
        /\ call_arg \in {c \in SectionCalls : c.start <= c.end /\ c.end <= Len(c.rows)}
     \/ /\ call_fn = "data_start"
        /\ call_arg \in ScanCalls
  /\ call_ret = None

Call_parse_npa_table_section ==
  /\ call_fn = "_parse_npa_table_section"
  /\ call_ret = None
  /\ call_ret' = Some(_parse_npa_table_section(call_arg.rows, call_arg.start, call_arg.end,
                                               Some(call_arg.year), call_arg.crime_category))
  /\ UNCHANGED <<call_fn, call_arg, run_vars>>

\* The lookahead loop of parse_npa_monthly for one section.
Call_data_start ==
  /\ call_fn = "data_start"
  /\ call_ret = None
  /\ call_ret' = Some(data_start_of(call_arg.rows, call_arg.start_row, call_arg.end_row))
  /\ UNCHANGED <<call_fn, call_arg, run_vars>>

NextSection ==
  \/ Call_parse_npa_table_section
  \/ Call_data_start

SpecSection == InitSection /\ [][NextSection]_vars

\* ------------------------------------------------------------------------
\* Properties

\* The current run is past the planning of _insert.
Planned == pc \in {"write", "done"} /\ records # <<>>

\* The current run has ended: a real run, or a dry run.
RealDone == pc = "done" /\ ~args.dry_run

DryDone == pc = "done" /\ args.dry_run

\* The resolver's answer for each prefecture name the files use, and the
\* mapper's for each category.
pref_info_of == [n \in EstatPrefNames \cup NpaPrefNames |-> _lookup_pref(n)]

crime_type_of == [c \in Categories |-> _map_crime_type(c)]

resolves(rec) == pref_info_of[rec.prefecture_name] # None

\* The natural key a record resolves to.
rec_key(rec) == <<rec.year, pref_info_of[rec.prefecture_name][1], rec.crime_category>>

\* The records of the current run whose prefecture resolves.
Resolved == {i \in 1..Len(records) : resolves(records[i])}

ResolvedKeys == {rec_key(records[i]) : i \in Resolved}

\* Row t carries the counts and the derived fields of record rec.
carries(t, rec) ==
  /\ t.count_recognized = rec.count_recognized
  /\ t.count_cleared = rec.count_cleared
  /\ t.count_arrested = rec.count_arrested
  /\ t.crime_type = crime_type_of[rec.crime_category]
  /\ t.location = <<pref_info_of[rec.prefecture_name][3], pref_info_of[rec.prefecture_name][2]>>
  /\ t.source = "npa_estat"

\* The rows of a table on key k.
on_key(table, k) == {t \in BagToSet(table) : row_key(t) = k}

\* C1: in a behaviour that imports one file again and again from an empty
\* sink, every real run leaves the sink as the first real run left it, as
\* long as only real runs have been made.
C1_Idempotent ==
  \A i \in 1..Len(hist) :
    (\A j \in 1..i : ~hist[j].dry_run) => hist[i].after = hist[1].after

C1_Witness ==
  /\ Len(hist) = 3
  /\ \A j \in 1..3 : ~hist[j].dry_run /\ hist[j].outcome = "returned"
  /\ BagCardinality(hist[1].after) = 2
  /\ hist[3].after = hist[1].after

\* C2: the sink holds at most one row per natural key
\* (year, prefecture_code, crime_category).
C2_SinkUnique ==
  \A t \in BagToSet(sink) :
    /\ CopiesIn(t, sink) = 1
    /\ \A u \in BagToSet(sink) : row_key(u) = row_key(t) => u = t

C2_Witness ==
  /\ pc = "done" /\ ~args.dry_run /\ outcome = "returned"
  /\ BagCardinality(sink0) = 2
  /\ BagCardinality(sink) = 2
  /\ \A t \in BagToSet(sink) : t \notin BagToSet(sink0)

\* C3: for every key the resolved records of the file produce, the write-set
\* holds exactly one row, and it carries the counts and derived fields of the
\* last record, in file order, that resolves to the key; the write-set holds
\* no other row.
C3_LastWins ==
  Planned =>
    /\ \A i \in Resolved :
         LET k    == rec_key(records[i])
             last == max_of({j \in Resolved : rec_key(records[j]) = k})
             hits == {n \in 1..Len(plan.deduped) : row_key(plan.deduped[n]) = k}
         IN  /\ Cardinality(hits) = 1
             /\ \A n \in hits : carries(plan.deduped[n], records[last])
    /\ \A n \in 1..Len(plan.deduped) : row_key(plan.deduped[n]) \in ResolvedKeys

C3_Witness ==
  /\ Planned
  /\ Len(records) = 2
  /\ Resolved = {1, 2}
  /\ rec_key(records[1]) = rec_key(records[2])
  /\ records[1].prefecture_name # records[2].prefecture_name
  /\ records[1].count_recognized # records[2].count_recognized
  /\ Len(plan.deduped) = 1

\* C4: the skipped count _insert reports is the number of records whose
\* prefecture did not resolve plus the number of resolved records beyond one
\* per natural key, and written + skipped is the number of parsed records.
C4_SkipAccounting ==
  (pc = "done" /\ result # None) =>
    /\ result[2] = (Len(records) - Cardinality(Resolved))
                   + (Cardinality(Resolved) - Cardinality(ResolvedKeys))
    /\ result[1] = Cardinality(ResolvedKeys)
    /\ result[1] + result[2] = Len(records)

C4_Witness ==
  /\ pc = "done"
  /\ result = <<1, 1>>
  /\ Resolved = {1, 2}

\* Every record of the pinned file gets a year: from the file name or --year
\* (NPA), from --year or from each row (e-Stat).
PinYearsKnown ==
  /\ pin # None
  /\ \/ pin[1].format = "npa"
     \/ pin[2] # None
     \/ \A i \in 1..Len(pin[1].rows) : pin[1].rows[i].year # None

\* C5: a dry run and the real run that follows it on the same file against an
\* empty sink report the same (written, skipped) counts, and the real run
\* completes (stated for the files whose records all have a year).
C5_DryRunAgrees ==
  \A i \in 1..(Len(hist) - 1) :
    (/\ PinYearsKnown
     /\ hist[i].dry_run
     /\ ~hist[i + 1].dry_run
     /\ hist[i + 1].before = EmptyBag)
    => /\ hist[i + 1].outcome = hist[i].outcome
       /\ hist[i + 1].result = hist[i].result

\* C6: a dry run leaves the sink as it found it and sends it no statement.
C6_DryRunWritesNothing ==
  (pc # "idle" /\ args.dry_run) => (sink = sink0 /\ calls = 0)

C6_Witness ==
  /\ DryDone
  /\ result # None
  /\ result[1] = 2
  /\ sink0 # EmptyBag

\* C7: when a real run writes a row whose key the sink already held, the
\* sink afterwards holds one row on that key, with the crime_type, counts,
\* location and source of the imported row; the key's year, prefecture_code
\* and crime_category are those it had, and the number of rows grows only by
\* the keys that are new.
C7_UpsertOverwrites ==
  (RealDone /\ outcome = "returned" /\ result # None) =>
    /\ \A n \in 1..Len(plan.deduped) :
         LET r == plan.deduped[n]
         IN  on_key(sink0, row_key(r)) # {} =>
               /\ Cardinality(on_key(sink, row_key(r))) = 1
               /\ \A u \in on_key(sink, row_key(r)) :
                    /\ CopiesIn(u, sink) = 1
                    /\ u.crime_type = r.crime_type
                    /\ u.count_recognized = r.count_recognized
                    /\ u.count_cleared = r.count_cleared
                    /\ u.count_arrested = r.count_arrested
                    /\ u.location = r.location
                    /\ u.source = r.source
    /\ BagCardinality(sink) = BagCardinality(sink0)
         + Cardinality({n \in 1..Len(plan.deduped) :
                          on_key(sink0, row_key(plan.deduped[n])) = {}})

C7_Witness ==
  /\ RealDone /\ outcome = "returned" /\ result # None
  /\ \E n \in 1..Len(plan.deduped) :
       /\ on_key(sink0, row_key(plan.deduped[n])) # {}
       /\ \A t \in on_key(sink0, row_key(plan.deduped[n])) :
            t.count_recognized # plan.deduped[n].count_recognized

\* The fatal conditions of a run, read off the file and the arguments.
DecodeFailure(a) == a.file.format = "estat" /\ ~a.file.decodes

UnsupportedFormat(a) ==
  a.file.format = "estat" /\ a.file.decodes /\ ~a.file.layout_ok

YearUnresolved(a) ==
  a.file.format = "npa" /\ a.year = None /\ a.file.reiwa = None

NoSectionsFound(a) ==
  a.file.format = "npa" /\ ~YearUnresolved(a) /\ ~a.file.sections

Fatal(a) ==
  DecodeFailure(a) \/ UnsupportedFormat(a) \/ YearUnresolved(a) \/ NoSectionsFound(a)

\* C8: a run that meets a decode, unsupported-format, year-unresolved or
\* no-sections failure never touches the sink and ends with a non-zero exit
\* status.
C8_FatalLeavesSink ==
  (pc # "idle" /\ Fatal(args)) =>
    /\ sink = sink0
    /\ calls = 0
    /\ pc \in {"main", "done"}
    /\ pc = "done" => exit_status(outcome) # 0

C8_Witness ==
  /\ pc = "done"
  /\ DecodeFailure(args)
  /\ ~args.dry_run
  /\ outcome = "traceback"
  /\ sink0 # EmptyBag

\* C9: a run whose file parses to records (each with a year) completes with
\* exit status 0 whatever prefectures fail to resolve; every resolvable
\* record's key is in the write-set and the unresolved ones are counted as
\* skipped.
C9_RowConditionsNeverAbort ==
  (pc = "done" /\ records # <<>> /\ \A i \in 1..Len(records) : records[i].year # None) =>
    /\ exit_status(outcome) = 0
    /\ result # None
    /\ result[2] >= Len(records) - Cardinality(Resolved)
    /\ \A i \in Resolved :
         \E n \in 1..Len(plan.deduped) : row_key(plan.deduped[n]) = rec_key(records[i])

\* Every row of the write-set is in the sink as the write-set has it.
AllApplied ==
  \A n \in 1..Len(plan.deduped) :
    \E u \in on_key(sink, row_key(plan.deduped[n])) :
      /\ u.crime_type = plan.deduped[n].crime_type
      /\ u.count_recognized = plan.deduped[n].count_recognized
      /\ u.count_cleared = plan.deduped[n].count_cleared
      /\ u.count_arrested = plan.deduped[n].count_arrested
      /\ u.location = plan.deduped[n].location
      /\ u.source = plan.deduped[n].source

\* C10: a real run sends the sink one statement; the sink is as the run found
\* it or holds every row of the write-set, and it is as the run found it when
\* the run did not complete.
C10_AtomicBatch ==
  pc # "idle" =>
    /\ calls <= 1
    /\ sink = sink0 \/ AllApplied
    /\ (pc = "done" /\ outcome # "returned") => sink = sink0
    /\ (RealDone /\ outcome = "returned" /\ result # None) => (calls = 1 /\ AllApplied)

C10_Witness ==
  /\ RealDone
  /\ outcome = "traceback"
  /\ Len(plan.deduped) = 2
  /\ plan.deduped[1].year # None
  /\ plan.deduped[2].year = None
  /\ sink = sink0

\* The order the reader is to try the encodings in: utf-8 with a byte order
\* mark, plain utf-8, then the two shift-jis encodings.
ReaderOrder == <<"utf-8-sig", "utf-8", "shift-jis", "cp932">>

\* Encoding enc decodes the file without error and leaves a non-blank row.
Wins(path, enc) ==
  LET d == decode(path.content, enc, "strict")
  IN  d.ok /\ \E i \in 1..Len(csv_reader(splitlines(d.text))) :
                 any_cell(csv_reader(splitlines(d.text))[i])

\* rows are the non-blank rows of the first encoding of ReaderOrder that wins.
ReadInOrder(path, rows) ==
  \E k \in 1..Len(ReaderOrder) :
    /\ Wins(path, ReaderOrder[k])
    /\ \A j \in 1..(k - 1) : ~Wins(path, ReaderOrder[j])
    /\ rows = SelectSeq(csv_reader(splitlines(decode(path.content, ReaderOrder[k], "strict").text)),
                        any_cell)

\* Some encoding of ReaderOrder wins.
Readable(path) == \E k \in 1..Len(ReaderOrder) : Wins(path, ReaderOrder[k])

\* The text of a file: what the first encoding of ReaderOrder that wins
\* decodes it to.
decoded_text(path) ==
  LET k == CHOOSE n \in 1..Len(ReaderOrder) :
             /\ Wins(path, ReaderOrder[n])
             /\ \A j \in 1..(n - 1) : ~Wins(path, ReaderOrder[j])
  IN  decode(path.content, ReaderOrder[k], "strict").text

\* The first characters of the file's text hold a Table-1 marker.
has_marker(path) ==
  \/ contains(first_chars(decoded_text(path), PROBE_CHARS), MARKER_FULLWIDTH)
  \/ contains(first_chars(decoded_text(path), PROBE_CHARS), MARKER_ASCII)

\* The header row of the file's text.
header_of(path) == csv_rows(decoded_text(path))[1]

\* Steps (2) to (4) of the classification, for a file without the marker.
HeaderSteps(path, r) ==
  LET h == stripped(header_of(path))
  IN  /\ is_date_keyed(h) => r.layout = "date_keyed"
      /\ (~is_date_keyed(h) /\ is_simple(h)) => r.layout = "simple"
      /\ (~is_date_keyed(h) /\ ~is_simple(h)) =>
            /\ r.layout = "unsupported"
            /\ r.how = "sys_exit"
            /\ r.headers = header_of(path)
            /\ r.records = <<>>

\* C11: main() takes a readable file for a Multi-Section Report when the
\* first characters of its text hold a Table-1 marker; else for a Date-Keyed
\* Table when the header has the date and the crime-kind column, also when it
\* has the columns of a Simple Table as well; else for a Simple Table when the
\* header has a prefecture and a recognized-count column; else it stops with
\* the unsupported-format error, which carries the header, and no records.
C11_ClassifierPriority ==
  (Returned("main_dispatch") /\ Readable(call_arg.path)) =>
     /\ has_marker(call_arg.path) => call_ret[1].layout = "multi_section"
     /\ ~has_marker(call_arg.path) => HeaderSteps(call_arg.path, call_ret[1])

\* The steps after the first, on the files main() does not take for a
\* Multi-Section Report.
C11_HeaderStepsHold ==
  (Returned("main_dispatch") /\ Readable(call_arg.path)
     /\ call_ret[1].layout # "multi_section") =>
     HeaderSteps(call_arg.path, call_ret[1])

\* C12: for a file that some encoding decodes to a non-blank row, what either
\* reader returns are the rows of the first encoding, in the order utf-8-sig,
\* utf-8, shift-jis, cp932, that decodes the file without error and leaves a
\* non-blank row; no returned row is blank.
C12_ReaderOrder ==
  /\ (Returned("_read_csv") /\ Readable(call_arg.path)) =>
        /\ ~call_ret[1].raised
        /\ ReadInOrder(call_arg.path, <<call_ret[1].headers>> \o call_ret[1].rows)
        /\ any_cell(call_ret[1].headers)
        /\ \A i \in 1..Len(call_ret[1].rows) : any_cell(call_ret[1].rows[i])
  /\ (Returned("_read_npa_csv") /\ Readable(call_arg.path)) =>
        /\ ~call_ret[1].raised
        /\ ReadInOrder(call_arg.path, call_ret[1].rows)
        /\ \A i \in 1..Len(call_ret[1].rows) : any_cell(call_ret[1].rows[i])

\* No encoding the readers know decodes the file.
Undecodable(path) ==
  \A k \in 1..Len(ReaderOrder) : ~decode(path.content, ReaderOrder[k], "strict").ok

\* C13: a file no encoding decodes makes _read_csv and _read_npa_csv raise
\* and return no rows, and the format probe does not take it for a
\* Multi-Section Report.
C13_DecodeFailureFatal ==
  /\ (Returned("_read_csv") /\ Undecodable(call_arg.path)) =>
        (call_ret[1].raised /\ call_ret[1].rows = <<>>)
  /\ (Returned("_read_npa_csv") /\ Undecodable(call_arg.path)) =>
        (call_ret[1].raised /\ call_ret[1].rows = <<>>)
  /\ (Returned("_is_npa_monthly_format") /\ Undecodable(call_arg.path)) => ~call_ret[1]

\* The decimal numeral of n.
RECURSIVE decimal(_)
decimal(n) ==
  IF n < 10 THEN <<DIGITS[n + 1]>> ELSE decimal(n \div 10) \o <<DIGITS[(n % 10) + 1]>>

\* The file name starts with the era prefix of year n: r or R, the number,
\* an underscore.
EraPrefixed(name, n) ==
  \E c \in {"r", "R"}, zeros \in {<<>>, <<"0">>} :
    startswith(name, <<c>> \o zeros \o decimal(n) \o <<"_">>)

\* 2018 + n for the era prefix of the file name, None without one.
EraYear(name) ==
  IF \E n \in 0..99 : EraPrefixed(name, n)
  THEN Some(2018 + (CHOOSE n \in 0..99 : EraPrefixed(name, n)))
  ELSE None

\* The year of a call of parse_npa_monthly: the year given, else the year of
\* the file name.
ResolvedYear(arg) == IF arg.year # None THEN arg.year ELSE EraYear(arg.path.name)

\* C14: parse_npa_monthly uses the year it is given; without one it uses
\* 2018 + n for a file name with the era prefix r<n>_ or R<n>_; with neither
\* it fails with the year-unresolved error and gives no records.  Every
\* record it returns carries the year so resolved.
C14_YearResolution ==
  Returned("parse_npa_monthly") =>
    /\ ResolvedYear(call_arg) = None =>
          /\ call_ret[1].exc = "ValueError"
          /\ call_ret[1].msg = "year"
          /\ call_ret[1].records = <<>>
    /\ ResolvedYear(call_arg) # None =>
          /\ call_ret[1].msg # "year"
          /\ \A i \in 1..Len(call_ret[1].records) :
               call_ret[1].records[i].year = ResolvedYear(call_arg)

\* A file named R06_... was parsed into two or more records, which carry
\* the year given or, without one, 2024.
C14_Witness ==
  /\ Returned("parse_npa_monthly")
  /\ EraYear(call_arg.path.name) = Some(2024)
  /\ Len(call_ret[1].records) >= 2
  /\ call_ret[1].records[1].year = ResolvedYear(call_arg)

\* No row of the file starts a section: none with 第３表 or 第４表 in its first
\* cell, and none with 第６表 and a label outside the denylist.
NoSectionRow(path) ==
  LET rows == _read_npa_csv(path).rows
  IN  \A i \in 1..Len(rows) : section_label(rows[i]) = None

\* C15 as stated: a file without a section row makes parse_npa_monthly fail
\* with the no-sections error.
C15_NoSectionsAlwaysThatError ==
  (Returned("parse_npa_monthly") /\ NoSectionRow(call_arg.path)) =>
     (call_ret[1].exc = "ValueError" /\ call_ret[1].msg = "sections")

\* C15: a file without a section row never gives a list of records, empty or
\* not: parse_npa_monthly fails with the no-sections error when the year
\* resolves, and with the year-unresolved error, raised first, when it does
\* not.
C15_NoSectionsIsError ==
  (Returned("parse_npa_monthly") /\ NoSectionRow(call_arg.path)) =>
     /\ call_ret[1].exc = "ValueError"
     /\ call_ret[1].records = <<>>
     /\ call_ret[1].msg = (IF ResolvedYear(call_arg) = None THEN "year" ELSE "sections")

\* A file whose only section header has a label of the denylist, with rows
\* under it, was parsed for a year that resolves.
C15_Witness ==
  /\ Returned("parse_npa_monthly")
  /\ NoSectionRow(call_arg.path)
  /\ ResolvedYear(call_arg) # None
  /\ Len(_read_npa_csv(call_arg.path).rows) >= 2
  /\ call_ret[1].msg = "sections"

\* A row that heads a table: its first cell starts with 第.
HeaderRow(row) ==
  /\ row # <<>>
  /\ startswith(strip(row[1]), <<"u7B2C">>)

\* A Table-6 header whose parenthetical is a label of the denylist.
DenylistedHeader(row) ==
  /\ HeaderRow(row)
  /\ strip(row[1]) = <<"u7B2C", "uFF16", "u8868">>
  /\ parenthetical(join(row, <<>>)) # None
  /\ strip(parenthetical(join(row, <<>>))[1]) \in DENYLIST

\* The rows of a file without its denylisted sub-tables: each denylisted
\* header goes, with the rows under it up to the next header.
RECURSIVE without_denylisted(_, _, _)
without_denylisted(rows, i, dropping) ==
  IF i > Len(rows) THEN <<>>
  ELSE IF DenylistedHeader(rows[i]) THEN without_denylisted(rows, i + 1, TRUE)
  ELSE IF HeaderRow(rows[i]) THEN <<rows[i]>> \o without_denylisted(rows, i + 1, FALSE)
  ELSE IF dropping THEN without_denylisted(rows, i + 1, TRUE)
  ELSE <<rows[i]>> \o without_denylisted(rows, i + 1, FALSE)

\* C16: no record of parse_npa_monthly carries a label of the denylist as
\* its crime category, and the records are those of the file without its
\* denylisted sub-tables: the rows under a denylisted header are emitted
\* under no section.
C16_DenylistedIgnored ==
  (Returned("parse_npa_monthly") /\ call_ret[1].exc = "none") =>
     LET kept == without_denylisted(_read_npa_csv(call_arg.path).rows, 1, FALSE)
     IN  /\ \A i \in 1..Len(call_ret[1].records) :
               call_ret[1].records[i].crime_category \notin DENYLIST
         /\ call_ret[1].records =
               sections_from(kept, section_starts_from(kept, 1), 1, ResolvedYear(call_arg))

\* The first half of C16 alone: no record carries a label of the denylist.
C16_NoDenylistedCategory ==
  Returned("parse_npa_monthly") =>
     \A i \in 1..Len(call_ret[1].records) :
        call_ret[1].records[i].crime_category \notin DENYLIST

\* C17: every record the parsers of the three layouts return has an integer
\* count_recognized.
C17_RecognizedPresent ==
  (Returned("parse_npa_monthly") \/ Returned("parse_rows")) =>
     \A i \in 1..Len(call_ret[1].records) :
        call_ret[1].records[i].count_recognized # None

\* C17 for the Multi-Section parser alone.
C17_RecognizedPresentNpa ==
  Returned("parse_npa_monthly") =>
     \A i \in 1..Len(call_ret[1].records) :
        call_ret[1].records[i].count_recognized # None

\* C18: every record parse_rows returns has an integer year, with or without
\* a default year.
C18_YearPresent ==
  Returned("parse_rows") =>
     \A i \in 1..Len(call_ret[1].records) : call_ret[1].records[i].year # None

\* C18 without its last clause: the year of a record is one a cell of a row
\* holds, or the default year.
C18_YearFromRowOrDefault ==
  Returned("parse_rows") =>
     \A i \in 1..Len(call_ret[1].records) :
        \/ call_ret[1].records[i].year = call_arg.default_year
        \/ \E r \in 1..Len(call_arg.rows) : \E c \in 1..Len(call_arg.rows[r]) :
              /\ isdigit(SubSeq(call_arg.rows[r][c], 1,
                                IF Len(call_arg.rows[r][c]) < 4 THEN Len(call_arg.rows[r][c]) ELSE 4))
              /\ call_ret[1].records[i].year =
                    Some(int_of(SubSeq(call_arg.rows[r][c], 1,
                                       IF Len(call_arg.rows[r][c]) < 4 THEN Len(call_arg.rows[r][c]) ELSE 4)))

\* The (code, latitude, longitude) of an official name of the master table.
MasterEntry(name) ==
  LET i == CHOOSE k \in 1..Len(PREFECTURE_MASTER) : PREFECTURE_MASTER[k][2] = name
  IN  <<PREFECTURE_MASTER[i][1], PREFECTURE_MASTER[i][3], PREFECTURE_MASTER[i][4]>>

IsOfficial(name) == \E k \in 1..Len(PREFECTURE_MASTER) : PREFECTURE_MASTER[k][2] = name

IsAlias(name) == \E k \in 1..Len(_PREF_ALIAS) : _PREF_ALIAS[k][1] = name

\* The official name an alias stands for.
OfficialOf(alias) ==
  _PREF_ALIAS[CHOOSE k \in 1..Len(_PREF_ALIAS) : _PREF_ALIAS[k][1] = alias][2]

\* Some official name contains the name or is contained in it.
SubstringOfOfficial(name) ==
  \E k \in 1..Len(PREFECTURE_MASTER) :
     contains(PREFECTURE_MASTER[k][2], name) \/ contains(name, PREFECTURE_MASTER[k][2])

\* An alias resolves to the entry of the official name it stands for.
AliasEquivalence ==
  (Returned("_lookup_pref") /\ IsAlias(strip(call_arg.name))) =>
     call_ret[1] = MasterEntry(OfficialOf(strip(call_arg.name)))

\* C19 as stated: aliases resolve as their official names, and a name that
\* is neither an official name nor an alias resolves to None.
C19_UnrecognizedIsNone ==
  /\ AliasEquivalence
  /\ (Returned("_lookup_pref")
        /\ ~IsOfficial(strip(call_arg.name)) /\ ~IsAlias(strip(call_arg.name))) =>
        call_ret[1] = None

\* C19: aliases resolve as their official names, and _lookup_pref returns
\* None exactly for the names that are no official name, no alias, contain
\* no official name and are contained in none.
C19_AliasAndMiss ==
  /\ AliasEquivalence
  /\ Returned("_lookup_pref") =>
        (call_ret[1] = None <=>
           /\ ~IsOfficial(strip(call_arg.name))
           /\ ~IsAlias(strip(call_arg.name))
           /\ ~SubstringOfOfficial(strip(call_arg.name)))

\* 京都 with a space before it was resolved, to the entry of 京都府.
C19_Witness ==
  /\ Returned("_lookup_pref")
  /\ call_arg.name = <<" ", "u4EAC", "u90FD">>
  /\ call_ret[1] = MasterEntry(<<"u4EAC", "u90FD", "u5E9C">>)
  /\ call_ret[1][1] = "26"

\* The values of the canonical taxonomy.
CrimeTypes ==
  {"satsujin_shougaichishi", "boukou_shougai", "settou_manbiki", "sagi", "seihanzai", "sonota"}

\* The umbrella keywords, by position in the table, that s contains.
Keywords(s) == {k \in 1..Len(_CATEGORY_FALLBACK) : contains(s, _CATEGORY_FALLBACK[k][1])}

\* C20: _map_crime_type returns a value of the taxonomy for every category:
\* the entry of the fine-grained table when the trimmed category is a key of
\* it, else the bucket of the first umbrella keyword, in table order, that it
\* contains, else the default bucket.
C20_MapperTotalOrdered ==
  Returned("_map_crime_type") =>
     LET s == strip(call_arg.category)
     IN  /\ call_ret[1] \in CrimeTypes
         /\ \A k \in 1..Len(CRIME_TYPE_MAP) :
               CRIME_TYPE_MAP[k][1] = s => call_ret[1] = CRIME_TYPE_MAP[k][2]
         /\ (\A k \in 1..Len(CRIME_TYPE_MAP) : CRIME_TYPE_MAP[k][1] # s) =>
               /\ \A k \in Keywords(s) :
                     (\A j \in Keywords(s) : k <= j) => call_ret[1] = _CATEGORY_FALLBACK[k][2]
               /\ Keywords(s) = {} => call_ret[1] = "sonota"

\* A category that holds 重要犯罪 and then 窃盗犯 went to the bucket of 窃盗犯,
\* the first of the two in the table.
C20_Witness ==
  /\ Returned("_map_crime_type")
  /\ Keywords(strip(call_arg.category)) = {3, 6}
  /\ call_ret[1] = "settou_manbiki"

\* The column the prefecture of a row is read from, counted from 1; 0 when
\* the header names none.
PrefColumn(h) == IF has_col(h, COL_PREF) THEN index_of(h, COL_PREF) ELSE pref_col(h)

\* A row with a cell under every column of the header.
FullRow(h, row) == Len(row) >= Len(h)

\* The prefecture cells of the full rows from the i-th on that are no
\* rollups, in file order.
RECURSIVE kept_prefs(_, _, _)
kept_prefs(h, rows, i) ==
  IF i > Len(rows) THEN <<>>
  ELSE (IF FullRow(h, rows[i]) /\ ~is_rollup(strip(rows[i][PrefColumn(h)]))
        THEN <<strip(rows[i][PrefColumn(h)])>> ELSE <<>>)
       \o kept_prefs(h, rows, i + 1)

\* a is what is left of b when some of its members are taken out.
RECURSIVE is_subsequence(_, _)
is_subsequence(a, b) ==
  IF a = <<>> THEN TRUE
  ELSE IF b = <<>> THEN FALSE
  ELSE IF Head(a) = Head(b) THEN is_subsequence(Tail(a), Tail(b))
  ELSE is_subsequence(a, Tail(b))

\* A header of the Date-Keyed or the Simple layout that names a prefecture
\* column.
RowLayout(headers) ==
  /\ layout_of(headers) \in {"date_keyed", "simple"}
  /\ PrefColumn(stripped(headers)) # 0

\* C21: parse_rows on a Date-Keyed or Simple header returns no record for a
\* row whose prefecture cell is empty, 全国, 計 or holds 管区, and one record
\* for every other row that has all its cells, in file order.
C21_RollupRowsSkipped ==
  (Returned("parse_rows") /\ RowLayout(call_arg.headers)) =>
     LET prefs == [i \in 1..Len(call_ret[1].records) |->
                     call_ret[1].records[i].prefecture_name]
     IN  /\ \A i \in 1..Len(prefs) : ~is_rollup(prefs[i])
         /\ is_subsequence(kept_prefs(stripped(call_arg.headers), call_arg.rows, 1), prefs)

\* The first half of C21 alone: no record is about a rollup row.
C21_NoRollupRecord ==
  (Returned("parse_rows") /\ RowLayout(call_arg.headers)) =>
     \A i \in 1..Len(call_ret[1].records) :
        ~is_rollup(call_ret[1].records[i].prefecture_name)

\* C21 for the calls that return: the parse was not ended by a row too short
\* for a column the code reads.
C21_RollupRowsSkippedReturning ==
  (Returned("parse_rows") /\ RowLayout(call_arg.headers) /\ call_ret[1].exc = "none") =>
     is_subsequence(kept_prefs(stripped(call_arg.headers), call_arg.rows, 1),
                    [i \in 1..Len(call_ret[1].records) |->
                       call_ret[1].records[i].prefecture_name])

\* The marks of a prefecture row: 北海道 with 計, 東京都 with a blank second
\* cell, or a second cell that ends in one of the suffixes.
IsPrefectureRow(row, suffixes) ==
  \/ strip(row[1]) = <<"u5317", "u6D77", "u9053">> /\ strip(row[2]) = <<"u8A08">>
  \/ strip(row[1]) = <<"u6771", "u4EAC", "u90FD">> /\ strip(row[2]) = <<>>
  \/ \E x \in suffixes : endswith(strip(row[2]), <<x>>)

PrefectureOfRow(row) ==
  IF strip(row[2]) \in {<<>>, <<"u8A08">>} THEN strip(row[1]) ELSE strip(row[2])

\* What a row of a section yields: one record when it has eleven cells, is a
\* prefecture row and its third cell is an integer, else nothing.
RowYield(row, year, crime_category, suffixes) ==
  IF Len(row) >= 11 /\ IsPrefectureRow(row, suffixes) /\ _parse_int(row[3]) # None
  THEN <<record(Some(year), PrefectureOfRow(row), crime_category,
                _parse_int(row[3]), _parse_int(row[7]), _parse_int(row[11]))>>
  ELSE <<>>

\* The yields of rows[start:end], in order.
RECURSIVE SectionYield(_, _, _, _, _, _)
SectionYield(rows, start, end, year, crime_category, suffixes) ==
  IF start >= end THEN <<>>
  ELSE RowYield(rows[start + 1], year, crime_category, suffixes)
       \o SectionYield(rows, start + 1, end, year, crime_category, suffixes)

\* C22, as stated: a row of a section yields a record exactly when it has at
\* least 11 cells, is a prefecture row (北海道 with 計, 東京都 with a blank
\* second cell, or a second cell ending in a prefecture suffix, 都 道 府 県)
\* and its third cell is an integer; the record has the counts of cells 3, 7
\* and 11, the section's category and the file's year.
C22_RowInterpretationAnySuffix ==
  Returned("_parse_npa_table_section") =>
     call_ret[1] = SectionYield(call_arg.rows, call_arg.start, call_arg.end, call_arg.year,
                                call_arg.crime_category, {"u90FD", "u9053", "u5E9C", "u770C"})

\* C22, amended: the same with 府 and 県 as the only suffixes.
C22_RowInterpretation ==
  Returned("_parse_npa_table_section") =>
     call_ret[1] = SectionYield(call_arg.rows, call_arg.start, call_arg.end, call_arg.year,
                                call_arg.crime_category, {"u5E9C", "u770C"})

\* A section with a row of each kind of prefecture row has been parsed: two
\* records, and a row whose second cell ends in 都 among the rows passed over.
C22_Witness ==
  /\ Returned("_parse_npa_table_section")
  /\ Len(call_ret[1]) = 2
  /\ call_arg.end - call_arg.start = 3
  /\ \E i \in 1..Len(call_ret[1]) : call_ret[1][i].prefecture_name = <<"u5317", "u6D77", "u9053">>
  /\ \E i \in 1..Len(call_ret[1]) : call_ret[1][i].count_arrested = None
  /\ \E i \in 1..Len(call_arg.rows) : call_arg.rows[i][2] = <<"u6771", "u4EAC", "u90FD">>

\* The third cell of the row at position j, counted from 0, is an integer.
ThirdCellInteger(rows, j) == Len(rows[j + 1]) > 2 /\ _parse_int(rows[j + 1][3]) # None

\* The rows the lookahead of a section covers: line 442 gives it
\* range(start_row + 1, min(start_row + 15, end_row)).
LookaheadRows == 14

\* C23: the first data row of a section lies after the section's header, at
\* most 15 rows after it and before the next section's header; it is the
\* first row of the lookahead whose third cell is an integer, and the rows
\* between the header and it yield no record.
C23_DataRowLocalization ==
  Returned("data_start") =>
     LET rows == call_arg.rows
         s    == call_arg.start_row
         e    == call_arg.end_row
         j    == call_ret[1]
         scanned == {k \in (s + 1)..(e - 1) : k <= s + LookaheadRows}
     IN  /\ s < j /\ j <= s + 15
         /\ j < e \/ j = s + 1
         /\ (\E k \in scanned : ThirdCellInteger(rows, k)) =>
               /\ j \in scanned
               /\ ThirdCellInteger(rows, j)
               /\ \A k \in scanned : k < j => ~ThirdCellInteger(rows, k)
         /\ _parse_npa_table_section(rows, s + 1, j, Some(2023), Settou) = <<>>

\* A section whose first data row comes after label rows has been scanned,
\* a data row of the next section lying within 15 rows of the header.
C23_Witness ==
  /\ Returned("data_start")
  /\ call_ret[1] > call_arg.start_row + 1
  /\ ThirdCellInteger(call_arg.rows, call_ret[1])
  /\ call_arg.end_row < Len(call_arg.rows)

\* The lookahead ends without a data row: the section has none before the
\* next header, or has more label rows than the lookahead covers.
C23_WitnessNotFound ==
  /\ Returned("data_start")
  /\ call_ret[1] = call_arg.start_row + 1
  /\ call_ret[1] < call_arg.end_row
  /\ ~ThirdCellInteger(call_arg.rows, call_ret[1])
  /\ \E k \in (call_arg.start_row + 15)..(call_arg.end_row - 1) :
        ThirdCellInteger(call_arg.rows, k)

\* The four columns the Date-Keyed layout is said to need.
RequiredColumns == {COL_DATE, COL_PREF, COL_CRIME, COL_RECOGNIZED}

\* C24: parse_rows returns records for a Date-Keyed header only when the
\* header holds, by exact name, the date, prefecture, crime-kind and
\* recognized-count columns.
C24_RequiredColumns ==
  (/\ Returned("parse_rows")
   /\ layout_of(call_arg.headers) = "date_keyed"
   /\ call_ret[1].records # <<>>) =>
     \A name \in RequiredColumns : has_col(stripped(call_arg.headers), name)

\* The second half of C24 alone: a Date-Keyed header with the four columns
\* and without the cleared-count or the arrested-count column is parsed, and
\* the counts of the missing columns are absent.
C24_OptionalMayBeMissing ==
  (/\ Returned("parse_rows")
   /\ layout_of(call_arg.headers) = "date_keyed"
   /\ \A name \in RequiredColumns : has_col(stripped(call_arg.headers), name)) =>
     /\ call_ret[1].exc = "none"
     /\ \A i \in 1..Len(call_ret[1].records) :
           /\ ~has_col(stripped(call_arg.headers), COL_CLEARED) =>
                 call_ret[1].records[i].count_cleared = None
           /\ ~has_col(stripped(call_arg.headers), COL_ARRESTED) =>
                 call_ret[1].records[i].count_arrested = None

\* Columns a substring of the header cell locates, letters in either case.
NamesPrefecture(c) ==
  contains(c, COL_PREF) \/ contains(lower(c), <<"p", "r", "e", "f", "e", "c", "t", "u", "r", "e">>)

NamesRecognized(c) == contains(c, COL_RECOGNIZED)

NamesCategory(c) ==
  contains(c, COL_CRIME) \/ contains(lower(c), <<"c", "a", "t", "e", "g", "o", "r", "y">>)

Locatable(headers) ==
  /\ \E i \in 1..Len(headers) : NamesPrefecture(strip(headers[i]))
  /\ \E i \in 1..Len(headers) : NamesRecognized(strip(headers[i]))

\* The literal total token, 総数.
TotalToken == <<"u7DCF", "u6570">>

\* C25: on a header that is not Date-Keyed, parse_rows returns records only
\* when a prefecture column and a recognized-count column are located by
\* substring; when they are not it raises the unsupported-format ValueError.
\* Every record carries 総数 when the header has no category column, and else
\* the category cell of the row it comes from.
C25_SimpleTable ==
  (Returned("parse_rows") /\ layout_of(call_arg.headers) # "date_keyed") =>
     LET h    == stripped(call_arg.headers)
         recs == call_ret[1].records
     IN  /\ recs # <<>> => Locatable(call_arg.headers)
         /\ ~Locatable(call_arg.headers) => call_ret[1].exc = "ValueError"
         /\ (~\E c \in 1..Len(h) : NamesCategory(h[c])) =>
               \A i \in 1..Len(recs) : recs[i].crime_category = TotalToken
         /\ \A c \in 1..Len(h) :
               (NamesCategory(h[c]) /\ \A b \in 1..(c - 1) : ~NamesCategory(h[b])) =>
                  \A i \in 1..Len(recs) :
                     \E r \in 1..Len(call_arg.rows) :
                        /\ Len(call_arg.rows[r]) >= c
                        /\ Len(call_arg.rows[r]) >= pref_col(h)
                        /\ recs[i].crime_category = strip(call_arg.rows[r][c])
                        /\ recs[i].prefecture_name = strip(call_arg.rows[r][pref_col(h)])

\* A Simple header with a category column has been parsed and a record
\* carries a category other than 総数.
C25_Witness ==
  /\ Returned("parse_rows")
  /\ layout_of(call_arg.headers) = "simple"
  /\ \E c \in 1..Len(call_arg.headers) : NamesCategory(strip(call_arg.headers[c]))
  /\ \E i \in 1..Len(call_ret[1].records) :
        call_ret[1].records[i].crime_category # TotalToken

\* A Simple header without a category column has been parsed into records.
C25_WitnessTotal ==
  /\ Returned("parse_rows")
  /\ layout_of(call_arg.headers) = "simple"
  /\ ~\E c \in 1..Len(call_arg.headers) : NamesCategory(strip(call_arg.headers[c]))
  /\ call_ret[1].records # <<>>

\* A header that is neither Date-Keyed nor Simple has been refused.
C25_WitnessRefused ==
  /\ Returned("parse_rows")
  /\ ~Locatable(call_arg.headers)
  /\ call_ret[1].exc = "ValueError"

\* The entries of the master table, by position, whose name contains the
\* name or is contained in it.
SubstringEntries(name) ==
  {k \in 1..Len(PREFECTURE_MASTER) :
     contains(PREFECTURE_MASTER[k][2], name) \/ contains(name, PREFECTURE_MASTER[k][2])}

\* C26: _lookup_pref resolves an official name to its own entry; a name that
\* is none, by the alias table, to the entry of the official name it stands
\* for; and any other name to the first entry, in the order of the table,
\* whose name contains it or is contained in it, or to None.  So an official
\* name or an alias resolves to its prefecture whatever other official name
\* it is a part of.
C26_ResolverOrder ==
  Returned("_lookup_pref") =>
     LET name == strip(call_arg.name)
     IN  /\ IsOfficial(name) => call_ret[1] = MasterEntry(name)
         /\ (~IsOfficial(name) /\ IsAlias(name)) =>
               call_ret[1] = MasterEntry(OfficialOf(name))
         /\ (~IsOfficial(name) /\ ~IsAlias(name)) =>
               /\ SubstringEntries(name) = {} => call_ret[1] = None
               /\ \A k \in SubstringEntries(name) :
                     (\A j \in SubstringEntries(name) : k <= j) =>
                        call_ret[1] = MasterEntry(PREFECTURE_MASTER[k][2])

\* The alias 京都 has been resolved to 京都府, code 26, although 東京都, code 13,
\* contains it and comes first in the table.
C26_Witness ==
  /\ Returned("_lookup_pref")
  /\ call_arg.name = <<"u4EAC", "u90FD">>
  /\ 13 \in SubstringEntries(call_arg.name)
  /\ call_ret[1] # None
  /\ call_ret[1][1] = "26"

\* A name that is no official name and no alias has been resolved by the
\* substring pass, more than one entry matching.
C26_WitnessSubstring ==
  /\ Returned("_lookup_pref")
  /\ ~IsOfficial(strip(call_arg.name)) /\ ~IsAlias(strip(call_arg.name))
  /\ Cardinality(SubstringEntries(strip(call_arg.name))) > 1
  /\ call_ret[1] # None

\* The three counts of a record.
CountsOf(rec) == <<rec.count_recognized, rec.count_cleared, rec.count_arrested>>

\* The names of the three count columns, in the order of CountsOf.
CountColumns == <<COL_RECOGNIZED, COL_CLEARED, COL_ARRESTED>>

\* The cell has a digit in it.
HasDigit(cell) == \E i \in 1..Len(cell) : is_digit(cell[i])

\* C27: every count of every record of the three parsers is absent or an
\* integer that is not negative.  In parse_rows the count of a column the
\* header does not have is absent in every record, a count that is present
\* comes from a cell of that column with digits in it (a cell that is no
\* integer gives an absent count, never zero), and the parse of rows that
\* have all their cells does not fail.
C27_CountsAbsentOrNatural ==
  /\ (Returned("parse_npa_monthly") \/ Returned("parse_rows")) =>
        \A i \in 1..Len(call_ret[1].records) :
           \A k \in 1..3 :
              \/ CountsOf(call_ret[1].records[i])[k] = None
              \/ /\ Len(CountsOf(call_ret[1].records[i])[k]) = 1
                 /\ CountsOf(call_ret[1].records[i])[k][1] \in Nat
  /\ (Returned("parse_rows") /\ layout_of(call_arg.headers) # "unsupported") =>
        LET h == stripped(call_arg.headers)
        IN  /\ \A i \in 1..Len(call_ret[1].records) :
                  \A k \in 1..3 :
                     \/ CountsOf(call_ret[1].records[i])[k] = None
                     \/ \E c \in 1..Len(h), r \in 1..Len(call_arg.rows) :
                           /\ contains(h[c], CountColumns[k])
                           /\ Len(call_arg.rows[r]) >= c
                           /\ HasDigit(call_arg.rows[r][c])
            /\ (\A r \in 1..Len(call_arg.rows) : FullRow(h, call_arg.rows[r])) =>
                  call_ret[1].exc = "none"

\* A header without the arrested-count column and a row whose cleared-count
\* cell is a lone minus sign and whose recognized-count cell has a minus sign
\* before its digits have been parsed into a record.
C27_Witness ==
  /\ Returned("parse_rows")
  /\ ~\E c \in 1..Len(call_arg.headers) : contains(call_arg.headers[c], COL_ARRESTED)
  /\ \E c \in 1..Len(call_arg.headers), r \in 1..Len(call_arg.rows) :
        /\ contains(call_arg.headers[c], COL_CLEARED)
        /\ Len(call_arg.rows[r]) >= c
        /\ call_arg.rows[r][c] = <<"-">>
  /\ \E i \in 1..Len(call_ret[1].records) :
        /\ call_ret[1].records[i].count_recognized = Some(1234)
        /\ call_ret[1].records[i].count_cleared = None
        /\ call_ret[1].records[i].count_arrested = None

\* The codes of the master table, and for each its name and its coordinate
\* (longitude, latitude).
MasterCodes == {PREFECTURE_MASTER[k][1] : k \in 1..Len(PREFECTURE_MASTER)}

MasterOfCode ==
  [c \in MasterCodes |->
     LET k == CHOOSE i \in 1..Len(PREFECTURE_MASTER) : PREFECTURE_MASTER[i][1] = c
     IN  [name |-> PREFECTURE_MASTER[k][2],
          location |-> <<PREFECTURE_MASTER[k][4], PREFECTURE_MASTER[k][3]>>]]

\* A row of the master table's making: one of its 47 codes with the name and
\* the coordinate of that code, the crime_type the mapper gives the row's
\* category, and the source tag of the import.
WellFormedRow(r) ==
  /\ r.prefecture_code \in MasterCodes
  /\ r.prefecture_name = MasterOfCode[r.prefecture_code].name
  /\ r.location = MasterOfCode[r.prefecture_code].location
  /\ r.crime_type \in CrimeTypes
  /\ r.crime_type = crime_type_of[r.crime_category]
  /\ r.source = "npa_estat"

\* C28: every row of every write-set, and every row of the sink after any
\* runs of the import, has a code of the master table with that code's name
\* and coordinate, the crime_type the mapper gives its crime_category, and
\* the source tag.
C28_CanonicalRows ==
  /\ Cardinality(MasterCodes) = 47
  /\ \A n \in 1..Len(plan.deduped) : WellFormedRow(plan.deduped[n])
  /\ \A t \in BagToSet(sink) : WellFormedRow(t)

\* A real run has written the row of a record that spells its prefecture
\* 東京: the row has code 13 and the name 東京都.
C28_Witness ==
  /\ RealDone /\ outcome = "returned" /\ result # None
  /\ \A i \in 1..Len(records) : records[i].prefecture_name = Tokyo
  /\ \E t \in BagToSet(sink) :
        /\ t \notin BagToSet(sink0)
        /\ t.prefecture_code = "13"
        /\ t.prefecture_name = Tokyoto

\* C29: no two rows of the write-set have the same natural key, whatever the
\* records; records that spell one prefecture differently, with the same
\* year and category, share one row.
C29_WriteSetKeysDistinct ==
  Planned =>
    /\ \A m, n \in 1..Len(plan.deduped) :
          row_key(plan.deduped[m]) = row_key(plan.deduped[n]) => m = n
    /\ Len(plan.deduped) = Cardinality(ResolvedKeys)
    /\ \A i, j \in Resolved :
          (/\ records[i].year = records[j].year
           /\ records[i].crime_category = records[j].crime_category
           /\ pref_info_of[records[i].prefecture_name][1]
                = pref_info_of[records[j].prefecture_name][1]) =>
             Cardinality({n \in 1..Len(plan.deduped) :
                            row_key(plan.deduped[n]) = rec_key(records[i])}) = 1

\* The write-set of a file that has 東京 and 東京都 for one year and category
\* is a single row of code 13.
C29_Witness ==
  /\ pc = "write"
  /\ Len(records) = 2
  /\ records[1].prefecture_name = Tokyo
  /\ records[2].prefecture_name = Tokyoto
  /\ records[1].year = records[2].year
  /\ Len(plan.deduped) = 1
  /\ plan.deduped[1].prefecture_code = "13"

\* The natural keys of a table, and those of the current write-set.
KeysOf(table) == {row_key(t) : t \in BagToSet(table)}

WriteSetKeys == {row_key(plan.deduped[n]) : n \in 1..Len(plan.deduped)}

\* C30: after a real run that completed, the keys of the sink are those it
\* had before and those of the write-set; after any real run every key it
\* had is still there and every row on a key outside the write-set is as it
\* was, and the sink has no other row outside the write-set.
C30_ImportFrame ==
  RealDone =>
    /\ outcome = "returned" => KeysOf(sink) = KeysOf(sink0) \cup WriteSetKeys
    /\ KeysOf(sink0) \subseteq KeysOf(sink)
    /\ \A t \in BagToSet(sink0) :
          row_key(t) \notin WriteSetKeys => CopiesIn(t, sink) = CopiesIn(t, sink0)
    /\ \A u \in BagToSet(sink) :
          row_key(u) \notin WriteSetKeys => CopiesIn(u, sink0) = CopiesIn(u, sink)

\* A real run has completed on a sink that held a key outside its write-set,
\* and has added a key.
C30_Witness ==
  /\ RealDone /\ outcome = "returned" /\ result # None
  /\ KeysOf(sink0) \ WriteSetKeys # {}
  /\ WriteSetKeys \ KeysOf(sink0) # {}
  /\ KeysOf(sink) = KeysOf(sink0) \cup WriteSetKeys

====
